---- MODULE Spec2Model ----
(***************************************************************************)
(* Message orchestration engine: intake (rate limit, dedup, first-message  *)
(* detection under row locks), the reminder engine and the idempotent      *)
(* webhook delivery layer, modelled over a PostgreSQL-style store          *)
(* (READ COMMITTED, row locks held until commit or rollback).              *)
(* Times are in seconds.                                                   *)
(***************************************************************************)
EXTENDS Integers, FiniteSets, Sequences, TLC

\* ---------------------------------------------------------------- bounds
MaxReq == 2
MaxTime == 6
HistRows == 9
MaxOps == 1

\* ------------------------------------------------------ program constants
DedupWindow == 5
RateWindow == 60
RateLimitPerMinute == 10
Delay15Min == 900
Delay30Min == 1800

Clients == {"c1", "c2"}
Contents == {"a", "n"}
\* contents that TextProcessor.process reduces to "" (noise)
Noise == {"n"}
\* text of every rendered bot reply
BotText == "r"
Req == 1 .. MaxReq
\* primary keys (uuid4 in the code): the k-th row a request creates
RowId(p, k) == 10 * p + k
OpRowId == 90
NoTx == 0
Outcomes == {"fail", "esc", "auto", "farewell"}

VARIABLES now, msgs, clsf, rems, sess, req, ops,
          redisUp, cache, redisKeys, fallbackKeys, calls, posts,
          workers, cancels, manual, hist,
          decision, dialog, fanout

\* the delivery layer's state, the reminder sweep's state
delivery == <<redisUp, cache, redisKeys, fallbackKeys, calls, posts>>
sweep == <<workers, cancels, manual, hist>>
\* the classification and escalation decision under computation, the dialog
\* lifecycle's state, the operator notification under way
engines == <<decision, dialog, fanout>>

vars == <<now, msgs, clsf, rems, sess, req, ops, delivery, sweep, engines>>

\* ------------------------------------------------------------ the store

\* rows a transaction's statement can see: committed ones and its own
Visible(rows, t) == {r \in rows : r.owner \in {NoTx, t}}

\* number of Message rows a set of records stands for
RowCount(S) ==
    LET grp == {r \in S : r.n > 1}
    IN  Cardinality(S \ grp) + (IF grp = {} THEN 0 ELSE (CHOOSE r \in grp : TRUE).n)

Newest(S) == {r \in S : \A q \in S : q.at <= r.at}

NewMessage(id, c, x, ty, first, t) ==
    [id |-> id, client |-> c, content |-> x, type |-> ty, at |-> now,
     first |-> first, n |-> 1, owner |-> t, lock |-> NoTx]

NewReminder(id, c, m, delay, t) ==
    [id |-> id, client |-> c, msg |-> m, sched |-> now + delay, created |-> now,
     sent |-> FALSE, cancelled |-> FALSE, by |-> "none", failed |-> 0,
     owner |-> t, lock |-> NoTx]

\* session.commit(): the transaction's rows become visible, its locks go
CommitRows(rows, t) ==
    {[r EXCEPT !.owner = IF @ = t THEN NoTx ELSE @,
               !.lock = IF @ = t THEN NoTx ELSE @] : r \in rows}

\* session.rollback(): the transaction's rows vanish, its locks go
RollbackRows(rows, t) ==
    {[r EXCEPT !.lock = IF @ = t THEN NoTx ELSE @] : r \in {q \in rows : q.owner # t}}

CommitSess(s, t) ==
    [c \in Clients |->
        IF s[c].owner = t \/ s[c].lock = t
        THEN [s[c] EXCEPT !.owner = NoTx, !.lock = NoTx,
                          !.last = IF s[c].lock = t THEN s[c].pend ELSE @,
                          !.st = IF s[c].lock = t /\ @ = "CLOSED" THEN "OPEN" ELSE @]
        ELSE s[c]]

RollbackSess(s, t) ==
    [c \in Clients |->
        IF s[c].owner = t THEN [st |-> "none", owner |-> NoTx, lock |-> NoTx, last |-> 0, pend |-> 0]
        ELSE IF s[c].lock = t THEN [s[c] EXCEPT !.lock = NoTx]
        ELSE s[c]]

NoSession == [st |-> "none", owner |-> NoTx, lock |-> NoTx, last |-> 0, pend |-> 0]

IdleReq == [pc |-> "idle", client |-> "c1", content |-> "a", isFirst |-> FALSE,
            sawSess |-> FALSE, msg |-> 0, result |-> "none", orig |-> 0, sawUser |-> 0,
            classified |-> "none"]

InFlight(p) == req[p].pc \notin {"idle", "done"}

\* ------------------------------------------------------------------ Init

InitIntake ==
    /\ now = 0
    /\ msgs = {[id |-> 1, client |-> "c2", content |-> "old", type |-> "user", at |-> 0,
                first |-> FALSE, n |-> HistRows, owner |-> NoTx, lock |-> NoTx]}
    /\ clsf = {}
    /\ rems = {}
    /\ sess = [c \in Clients |->
                 IF c = "c2" THEN [st |-> "OPEN", owner |-> NoTx, lock |-> NoTx, last |-> 0, pend |-> 0]
                 ELSE NoSession]
    /\ req = [p \in Req |-> IdleReq]
    /\ ops = 0

\* ------------------------------------------------ delivery layer: values
MaxCalls == 2
MarkerTTL == 3600
MetricTTL == 86400
MaxAttempts == 3

MsgIds == {"m1", "m2"}
Call == 1 .. MaxCalls

\* JSON / Python values that travel as a platform message id: v is the text
None == [t |-> "none", v |-> ""]
IntId(x) == [t |-> "int", v |-> x]
StrId(x) == [t |-> "str", v |-> x]
\* Python's str(x)
Str(x) == [t |-> "str", v |-> x.v]
\* Python's truth value of x
Truthy(x) == x.t # "none" /\ x.v # "" /\ ~(x.t = "int" /\ x.v = "0")
\* the "message_id" a platform's JSON answer can carry (None: no such key)
PlatformIds == {None, IntId("0"), IntId("7"), StrId("7")}

SentKey(m) == m
MetricKey == "metrics:webhook_duplicates"
Keys == MsgIds \cup {MetricKey}
NoEntry == [val |-> None, exp |-> 0]

NoResult == [success |-> FALSE, skipped |-> FALSE, ext |-> None, outcome |-> "none",
             retryable |-> TRUE]
\* sent: transport calls made; refused, errors: answers with a status of the
\* last branch, a 4xx and a 500; readDown, markDown: the marker read and
\* the marker write did not reach Redis
IdleCall == [pc |-> "idle", mid |-> "m1", attempt |-> 1, ext |-> None, sent |-> 0,
             refused |-> 0, errors |-> 0, readDown |-> FALSE, markDown |-> FALSE,
             readAt |-> 0, markAt |-> 0, after |-> {}, result |-> NoResult]

InitDelivery ==
    /\ redisUp = TRUE
    /\ cache = [connected |-> FALSE, useFallback |-> FALSE]
    /\ redisKeys = [k \in Keys |-> NoEntry]
    /\ fallbackKeys = [k \in Keys |-> NoEntry]
    /\ calls = [k \in Call |-> IdleCall]
    /\ posts = [m \in MsgIds |-> [ok |-> 0, unparsed |-> 0]]

\* ------------------------------------------------ reminder sweep: values
MaxWorkers == 2
MaxCancels == 2
MaxManual == 1
MaxRetryAttempts == 3
\* seconds between the two messages of the client with two messages
Gap == 10

Worker == 1 .. MaxWorkers
CancelCall == 1 .. MaxCancels
\* transactions: a worker's claiming session, the session of its
\* send_reminder call, the session of a cancel request
ClaimTx(w) == 100 + w
SendTx(w) == 200 + w
CancelTx(x) == 300 + x
\* primary key of the reply row worker w creates for reminder r
ReplyId(w, r) == 100 * w + r

\* the stored conversation the sweep runs over: requests 1 and 2 of client
\* c1, Gap seconds apart, each answered automatically and holding its two
\* reminders
Stored == {1, 2}
StoredClient(p) == "c1"
StoredAt(p) == IF p = 2 THEN Gap ELSE 0
StoredClients == {StoredClient(p) : p \in Stored}
RemIds == {RowId(p, k) : p \in Stored, k \in {4, 5}}
\* the client's ChatSession carries a webhook_url
HasWebhook(c) == c = "c1"

IdleWorker == [pc |-> "idle", todo |-> {}, got |-> {}, claimAt |-> 0]
\* extra, missed: what a finished scoped request cancelled beyond, and short
\* of, the reminders it was meant to cancel
IdleCancel == [pc |-> "idle", client |-> "c1", after |-> 0, found |-> {},
               extra |-> {}, missed |-> {}]

InitSweep ==
    /\ workers = [w \in Worker |-> IdleWorker]
    /\ cancels = [x \in CancelCall |-> IdleCancel]
    /\ manual = 0
    /\ hist = [r \in RemIds |-> [delivered |-> 0, failed |-> 0]]

\* ------------------------------------------- decision and dialog: values
IdleDecision == [pc |-> "idle"]
IdleDialog == [pc |-> "idle"]
IdleFanout == [pc |-> "idle"]

InitEngines ==
    /\ decision = IdleDecision
    /\ dialog = IdleDialog
    /\ fanout = IdleFanout

Init == InitIntake /\ InitDelivery /\ InitSweep /\ InitEngines

\* --------------------------------------------------- POST /api/messages/

Submit(p, c, x) ==
    /\ req[p].pc = "idle"
    /\ req' = [req EXCEPT ![p] = [IdleReq EXCEPT !.pc = "rate", !.client = c, !.content = x]]
    /\ \A q \in Req : q < p => req[q].pc # "idle"
    /\ UNCHANGED <<now, msgs, clsf, rems, sess, ops>>
    /\ UNCHANGED <<delivery, sweep, engines>>

RecentCount(p) ==
    RowCount({r \in Visible(msgs, p) : r.client = req[p].client /\ r.at >= now - RateWindow})

RateLimited(p) ==
    /\ req[p].pc = "rate"
    /\ RecentCount(p) >= RateLimitPerMinute
    /\ req' = [req EXCEPT ![p].pc = "done", ![p].result = "rate_limited"]
    /\ UNCHANGED <<now, msgs, clsf, rems, sess, ops>>
    /\ UNCHANGED <<delivery, sweep, engines>>

RatePassed(p) ==
    /\ req[p].pc = "rate"
    /\ RecentCount(p) < RateLimitPerMinute
    /\ req' = [req EXCEPT ![p].pc = "dedup"]
    /\ UNCHANGED <<now, msgs, clsf, rems, sess, ops>>
    /\ UNCHANGED <<delivery, sweep, engines>>

\* the dedup SELECT: same client, same content, created within the window
DuplicateRows(p) ==
    {r \in Visible(msgs, p) : /\ r.client = req[p].client
                              /\ r.content = req[p].content
                              /\ r.at >= now - DedupWindow}

DuplicateFound(p) ==
    /\ req[p].pc = "dedup"
    /\ \E d \in Newest(DuplicateRows(p)) :
          req' = [req EXCEPT ![p].pc = "done", ![p].result = "duplicate", ![p].orig = d.id,
                             ![p].sawUser =
                                 LET u == {r \in DuplicateRows(p) : r.type = "user"}
                                 IN  IF u = {} THEN 0 ELSE (CHOOSE r \in Newest(u) : TRUE).id]
    /\ UNCHANGED <<now, msgs, clsf, rems, sess, ops>>
    /\ UNCHANGED <<delivery, sweep, engines>>

NoDuplicate(p) ==
    /\ req[p].pc = "dedup"
    /\ DuplicateRows(p) = {}
    /\ req' = [req EXCEPT ![p].pc = "lock"]
    /\ UNCHANGED <<now, msgs, clsf, rems, sess, ops>>
    /\ UNCHANGED <<delivery, sweep, engines>>

\* SELECT ... WHERE client_id = :c FOR UPDATE: waits for the rows it finds
\* locked, locks the rows it returns; is_first_message = no row returned
ClientRows(p) == {r \in Visible(msgs, p) : r.client = req[p].client}

LockRead(p) ==
    /\ req[p].pc = "lock"
    /\ \A r \in ClientRows(p) : r.lock \in {NoTx, p}
    /\ msgs' = {IF r \in ClientRows(p) THEN [r EXCEPT !.lock = p] ELSE r : r \in msgs}
    /\ req' = [req EXCEPT ![p].pc = "sess", ![p].isFirst = (ClientRows(p) = {})]
    /\ UNCHANGED <<now, clsf, rems, sess, ops>>
    /\ UNCHANGED <<delivery, sweep, engines>>

\* get_or_create_session: the SELECT
SelectSession(p) ==
    /\ req[p].pc = "sess"
    /\ LET s == sess[req[p].client]
       IN  req' = [req EXCEPT ![p].pc = "act",
                              ![p].sawSess = (s.st # "none" /\ s.owner \in {NoTx, p})]
    /\ UNCHANGED <<now, msgs, clsf, rems, sess, ops>>
    /\ UNCHANGED <<delivery, sweep, engines>>

\* update_activity on a session the SELECT found: UPDATE, takes the row lock
ActivityUpdate(p) ==
    /\ req[p].pc = "act"
    /\ req[p].sawSess
    /\ sess[req[p].client].lock \in {NoTx, p}
    /\ sess' = [sess EXCEPT ![req[p].client].lock = p, ![req[p].client].pend = now]
    /\ req' = [req EXCEPT ![p].pc = "ins"]
    /\ UNCHANGED <<now, msgs, clsf, rems, ops>>
    /\ UNCHANGED <<delivery, sweep, engines>>

\* get_or_create_session found none: INSERT (client_id is unique); it waits
\* for a concurrent uncommitted INSERT of the same client_id
SessionInsert(p) ==
    /\ req[p].pc = "act"
    /\ ~req[p].sawSess
    /\ sess[req[p].client].st = "none"
    /\ sess' = [sess EXCEPT ![req[p].client] =
                   [st |-> "OPEN", owner |-> p, lock |-> NoTx, last |-> now, pend |-> now]]
    /\ req' = [req EXCEPT ![p].pc = "ins"]
    /\ UNCHANGED <<now, msgs, clsf, rems, ops>>
    /\ UNCHANGED <<delivery, sweep, engines>>

\* the INSERT meets a session committed since the SELECT: IntegrityError,
\* the handler rolls back and answers 500
SessionConflict(p) ==
    /\ req[p].pc = "act"
    /\ ~req[p].sawSess
    /\ sess[req[p].client].st # "none"
    /\ sess[req[p].client].owner = NoTx
    /\ msgs' = RollbackRows(msgs, p)
    /\ sess' = RollbackSess(sess, p)
    /\ req' = [req EXCEPT ![p].pc = "done", ![p].result = "error"]
    /\ UNCHANGED <<now, clsf, rems, ops>>
    /\ UNCHANGED <<delivery, sweep, engines>>

\* STEP 2-3: INSERT the USER row; empty processed text: fallback reply, commit
InsertMessage(p) ==
    /\ req[p].pc = "ins"
    /\ LET c == req[p].client
           m == NewMessage(RowId(p, 0), c, req[p].content, "user", req[p].isFirst, p)
           fb == NewMessage(RowId(p, 1), c, BotText, "bot_escalated", FALSE, p)
       IN  IF req[p].content \in Noise
           THEN /\ msgs' = CommitRows(msgs \cup {m, fb}, p)
                /\ sess' = CommitSess(sess, p)
           ELSE /\ msgs' = msgs \cup {m}
                /\ sess' = sess
    /\ req' = [req EXCEPT ![p].pc = "cls", ![p].msg = RowId(p, 0)]
    /\ UNCHANGED <<now, clsf, rems, ops>>
    /\ UNCHANGED <<delivery, sweep, engines>>

\* cancel_client_reminders(client_id, after_message_id) run by transaction t:
\* the reminders its locking SELECT (SKIP LOCKED) returns. after = 0: no
\* after_message_id given. The lookup of the referenced message is itself a
\* SKIP LOCKED read: a message row locked by another transaction is not found,
\* and then every pending reminder of the client is selected.
AfterMessage(t, after) ==
    {m \in Visible(msgs, t) : m.id = after /\ m.lock \in {NoTx, t}}

PendingOf(set, t, c) ==
    {r \in Visible(set, t) : r.client = c /\ ~r.sent /\ ~r.cancelled}

\* found: the message rows the lookup returned (none: every pending reminder)
ScopedTo(set, t, c, found) ==
    IF found # {}
    THEN {r \in PendingOf(set, t, c) :
            \E q \in Visible(msgs, t) :
               /\ q.id = r.msg
               /\ q.client = c
               /\ \E m \in found : q.at > m.at}
    ELSE PendingOf(set, t, c)

ScopedAfter(set, t, c, after) ==
    ScopedTo(set, t, c, IF after # 0 THEN AfterMessage(t, after) ELSE {})

CancelTargets(set, t, c, after) ==
    {r \in ScopedAfter(set, t, c, after) : r.lock \in {NoTx, t}}

\* is_cancelled = True on the selected rows
Cancelled(set, ids, why) ==
    {IF r.id \in ids THEN [r EXCEPT !.cancelled = TRUE, !.by = why] ELSE r : r \in set}

\* STEP 4-9: classify (oracle outcome o), store the classification, create
\* the reply, create reminders, cancel reminders after this message, commit
Process(p, o) ==
    /\ req[p].pc = "cls"
    /\ \A m \in msgs : m.id = req[p].msg => m.lock \in {NoTx, p}
    /\ LET c == req[p].client
           esc == o \in {"fail", "esc"}
           fb == IF o = "fail"
                 THEN {NewMessage(RowId(p, 2), c, BotText, "bot_escalated", FALSE, p)}
                 ELSE {}
           rsp == NewMessage(RowId(p, 3), c, BotText,
                             IF esc THEN "bot_escalated" ELSE "bot_auto", FALSE, p)
           newRems == IF o = "auto"
                      THEN {NewReminder(RowId(p, 4), c, req[p].msg, Delay15Min, p),
                            NewReminder(RowId(p, 5), c, req[p].msg, Delay30Min, p)}
                      ELSE {}
           allRems == rems \cup newRems
           tgt == {r.id : r \in CancelTargets(allRems, p, c, req[p].msg)}
       IN  /\ msgs' = CommitRows(msgs \cup fb \cup {rsp}, p)
           /\ clsf' = clsf \cup {[msg |-> req[p].msg,
                                  scenario |-> IF o = "fail" THEN "UNKNOWN" ELSE o]}
           /\ rems' = CommitRows(Cancelled(allRems, tgt, "intake"), p)
           /\ sess' = CommitSess(sess, p)
           /\ req' = [req EXCEPT ![p].pc = "done",
                                 ![p].classified = o,
                                 ![p].result = IF esc THEN "escalated" ELSE "success"]
    /\ UNCHANGED <<now, ops>>
    /\ UNCHANGED <<delivery, sweep, engines>>

\* POST /api/operator/send: an OPERATOR row and update_activity, committed
OpContents == {"a"}

OperatorSend(c, x) ==
    /\ ops < MaxOps
    /\ sess[c].owner = NoTx
    /\ sess[c].lock = NoTx
    /\ msgs' = msgs \cup {NewMessage(OpRowId + ops, c, x, "operator", FALSE, NoTx)}
    /\ sess' = [sess EXCEPT ![c] = [st |-> "OPEN", owner |-> NoTx, lock |-> NoTx,
                                    last |-> now, pend |-> now]]
    /\ ops' = ops + 1
    /\ UNCHANGED <<now, clsf, rems, req>>
    /\ UNCHANGED <<delivery, sweep, engines>>

\* the clock; steps that separate "inside the dedup window" from "outside"
TickSteps == {DedupWindow, DedupWindow + 1}

Tick ==
    /\ \E d \in TickSteps : now + d <= MaxTime /\ now' = now + d
    /\ UNCHANGED <<msgs, clsf, rems, sess, req, ops>>
    /\ UNCHANGED <<delivery, sweep, engines>>

Next ==
    \/ \E p \in Req, c \in Clients, x \in Contents : Submit(p, c, x)
    \/ \E p \in Req : RateLimited(p)
    \/ \E p \in Req : RatePassed(p)
    \/ \E p \in Req : DuplicateFound(p)
    \/ \E p \in Req : NoDuplicate(p)
    \/ \E p \in Req : LockRead(p)
    \/ \E p \in Req : SelectSession(p)
    \/ \E p \in Req : ActivityUpdate(p)
    \/ \E p \in Req : SessionInsert(p)
    \/ \E p \in Req : SessionConflict(p)
    \/ \E p \in Req : InsertMessage(p)
    \/ \E p \in Req, o \in Outcomes : Process(p, o)
    \/ \E c \in Clients, x \in OpContents : OperatorSend(c, x)
    \/ Tick

Spec == Init /\ [][Next]_vars

\* ------------------------------------------------------ intake properties

Committed(rows) == {r \in rows : r.owner = NoTx}

UserRows(c) == {m \in Committed(msgs) : m.client = c /\ m.type = "user"}

\* C1: of the persisted messages of one client at most one carries
\* is_first_message = true, however the submissions interleave.
C1_SingleFirstMessage ==
    \A c \in Clients : Cardinality({m \in UserRows(c) : m.first}) <= 1

\* C2: a submission answered "duplicate" whose dedup check found a persisted
\* USER message of the same client and content inside the window names a
\* USER message with that content as original_message_id.
C2_DuplicateNamesOriginal ==
    \A q \in Req :
        (req[q].result = "duplicate" /\ req[q].sawUser # 0) =>
            \E m \in UserRows(req[q].client) :
                m.id = req[q].orig /\ m.content = req[q].content

\* C3: identical submissions (same client, same content) never leave two
\* persisted USER messages created within one dedup window of each other.
C3_OneMessagePerWindow ==
    \A c \in Clients : \A m1, m2 \in UserRows(c) :
        (m1.id # m2.id /\ m1.content = m2.content /\ m1.n = 1 /\ m2.n = 1)
            => (m1.at - m2.at > DedupWindow \/ m2.at - m1.at > DedupWindow)
\* ------------------------------------------- RedisCache with its fallback

\* RedisCache._get_client: None once _use_fallback is set; the first use
\* connects and pings, and a failure there sets _use_fallback for good
GetClient ==
    IF cache.useFallback THEN [client |-> FALSE, cache |-> cache]
    ELSE IF cache.connected THEN [client |-> TRUE, cache |-> cache]
    ELSE IF redisUp THEN [client |-> TRUE, cache |-> [cache EXCEPT !.connected = TRUE]]
    ELSE [client |-> FALSE, cache |-> [cache EXCEPT !.useFallback = TRUE]]

\* the operation runs on Redis; otherwise (no client, or the command raised)
\* on the in-memory SimpleCache
OnRedis == GetClient.client /\ redisUp

\* Redis GET: a key set with SETEX is gone once its TTL has elapsed
RedisGet(store, key) ==
    IF now < store[key].exp THEN store[key].val ELSE None

\* SimpleCache.get: an entry is expired once utcnow() > expires_at
FallbackGet(store, key) ==
    IF now <= store[key].exp THEN store[key].val ELSE None

\* SimpleCache.get deletes the expired entry it meets
FallbackDrop(store, key) ==
    IF now <= store[key].exp THEN store ELSE [store EXCEPT ![key] = NoEntry]

\* RedisCache.get over the pair <<redis store, fallback store>>
CacheGet(rs, fs, key) ==
    IF OnRedis THEN RedisGet(rs, key) ELSE FallbackGet(fs, key)

\* RedisCache.set: the stores after set(key, val, ttl)
RedisAfterSet(rs, key, val, ttl) ==
    IF OnRedis THEN [rs EXCEPT ![key] = [val |-> val, exp |-> now + ttl]] ELSE rs

FallbackAfterSet(fs, key, val, ttl) ==
    IF OnRedis THEN fs ELSE [fs EXCEPT ![key] = [val |-> val, exp |-> now + ttl]]

\* int(current_count) if current_count else 0, then str(count + 1)
ParseInt(x) == CHOOSE n \in 0 .. MaxCalls : ToString(n) = x.v

NextCount(cur) == StrId(ToString((IF Truthy(cur) THEN ParseInt(cur) ELSE 0) + 1))

\* ------------------------------------------- WebhookSender.send_response

StartSend(k, m) ==
    /\ calls[k].pc = "idle"
    /\ \A j \in Call : j < k => calls[j].pc # "idle"
    /\ calls' = [calls EXCEPT ![k] =
                   [IdleCall EXCEPT !.pc = "read", !.mid = m,
                                    !.after = {j \in Call : /\ calls[j].pc = "done"
                                                            /\ calls[j].mid = m
                                                            /\ calls[j].result.outcome = "sent"}]]
    /\ UNCHANGED <<now, msgs, clsf, rems, sess, req, ops, sweep, engines>>
    /\ UNCHANGED <<redisUp, cache, redisKeys, fallbackKeys, posts>>

\* the idempotency check: marker present: count the duplicate and return the
\* cached id with skipped = true; absent: go on to the transport call
MarkerRead(k) ==
    /\ calls[k].pc = "read"
    /\ LET m == calls[k].mid
           seen == CacheGet(redisKeys, fallbackKeys, SentKey(m))
           fs1 == IF OnRedis THEN fallbackKeys ELSE FallbackDrop(fallbackKeys, SentKey(m))
           cnt == CacheGet(redisKeys, fs1, MetricKey)
           fs2 == IF OnRedis THEN fs1 ELSE FallbackDrop(fs1, MetricKey)
       IN  IF Truthy(seen)
           THEN /\ redisKeys' = RedisAfterSet(redisKeys, MetricKey, NextCount(cnt), MetricTTL)
                /\ fallbackKeys' = FallbackAfterSet(fs2, MetricKey, NextCount(cnt), MetricTTL)
                /\ calls' = [calls EXCEPT ![k].pc = "done", ![k].readAt = now,
                                ![k].readDown = ~OnRedis,
                                ![k].result = [success |-> TRUE, skipped |-> TRUE,
                                               ext |-> Str(seen), outcome |-> "skipped",
                                               retryable |-> TRUE]]
           ELSE /\ redisKeys' = redisKeys
                /\ fallbackKeys' = fs1
                /\ calls' = [calls EXCEPT ![k].pc = "post", ![k].readAt = now,
                                          ![k].readDown = ~OnRedis]
    /\ cache' = GetClient.cache
    /\ UNCHANGED <<now, msgs, clsf, rems, sess, req, ops, sweep, engines>>
    /\ UNCHANGED <<redisUp, posts>>
\* what the platform does with one POST
TransportOutcomes == {"ok", "badjson", "retryable", "rejected", "server_error"}

\* a failure result; "raised" stands for the exception that leaves
\* send_response, which carries no result
Failure(o) == [success |-> FALSE, skipped |-> FALSE, ext |-> None, outcome |-> o,
               retryable |-> FALSE]

\* a copy of Accepted that takes every status below 500 for a delivery
AcceptedBelow500(o) == o \in {"ok", "rejected"}

\* response.status_code in [200, 201], with a body that parses
Accepted(o) == o = "ok"

\* a copy of Retried that also retries the statuses of the last branch
RetriedAnyFailure(o, a) == o \in {"retryable", "rejected", "server_error"} /\ a < MaxAttempts

\* tenacity runs the function again: the attempt raised, and it was not the
\* last one (stop_after_attempt)
Retried(o, a) == o = "retryable" /\ a < MaxAttempts

\* the transport call and the handling of its status code.
\*   ok:        200/201; platform_msg_id = result.get("message_id") or message_id
\*   badjson:   200/201 whose JSON body does not parse: response.json() raises,
\*              the generic handler returns a non-retryable failure
\*   retryable: 429/502/503/504, timeout, network error: raised; tenacity
\*              re-runs the whole function, and re-raises after MaxAttempts
\*   rejected:  a 4xx other than 429: the last branch, a failure result
\*   server_error: a 500: the last branch as well
Post(k, o, b) ==
    /\ calls[k].pc = "post"
    /\ o = "ok" \/ b = None
    /\ LET m == calls[k].mid
       IN  /\ posts' = [posts EXCEPT ![m].ok = IF o = "ok" THEN @ + 1 ELSE @,
                                     ![m].unparsed = IF o = "badjson" THEN @ + 1 ELSE @]
           /\ calls' = [calls EXCEPT ![k] =
                 IF Accepted(o)
                 THEN [@ EXCEPT !.pc = "mark", !.sent = @ + 1,
                                !.ext = IF Truthy(b) THEN b ELSE StrId(m)]
                 ELSE IF Retried(o, calls[k].attempt)
                 THEN [@ EXCEPT !.pc = "read", !.sent = @ + 1, !.attempt = @ + 1,
                                !.refused = IF o = "rejected" THEN @ + 1 ELSE @,
                                !.errors = IF o = "server_error" THEN @ + 1 ELSE @]
                 ELSE [@ EXCEPT !.pc = "done", !.sent = @ + 1,
                                !.refused = IF o = "rejected" THEN @ + 1 ELSE @,
                                !.errors = IF o = "server_error" THEN @ + 1 ELSE @,
                                !.result = Failure(IF o = "retryable" THEN "raised" ELSE o)]]
    /\ UNCHANGED <<now, msgs, clsf, rems, sess, req, ops, sweep, engines>>
    /\ UNCHANGED <<redisUp, cache, redisKeys, fallbackKeys>>

\* a copy of Sent in which a marker write that misses Redis fails the Send
SentIfMarked(k) ==
    IF OnRedis
    THEN [success |-> TRUE, skipped |-> FALSE, ext |-> calls[k].ext, outcome |-> "sent",
          retryable |-> TRUE]
    ELSE [success |-> FALSE, skipped |-> FALSE, ext |-> None, outcome |-> "marker",
          retryable |-> FALSE]

\* the success result of a delivered Send
Sent(k) ==
    [success |-> TRUE, skipped |-> FALSE, ext |-> calls[k].ext, outcome |-> "sent",
     retryable |-> TRUE]

\* after a 200/201: set(sent_key, str(platform_msg_id), ttl_seconds=3600),
\* then return the success result with the id as the platform gave it
MarkerWrite(k) ==
    /\ calls[k].pc = "mark"
    /\ LET m == calls[k].mid
       IN  /\ redisKeys' = RedisAfterSet(redisKeys, SentKey(m), Str(calls[k].ext), MarkerTTL)
           /\ fallbackKeys' = FallbackAfterSet(fallbackKeys, SentKey(m), Str(calls[k].ext), MarkerTTL)
    /\ cache' = GetClient.cache
    /\ calls' = [calls EXCEPT ![k].pc = "done", ![k].markAt = now,
                              ![k].markDown = ~OnRedis,
                              ![k].result = Sent(k)]
    /\ UNCHANGED <<now, msgs, clsf, rems, sess, req, ops, sweep, engines>>
    /\ UNCHANGED <<redisUp, posts>>

\* the Redis server becomes unreachable / reachable again
RedisFails ==
    /\ redisUp
    /\ redisUp' = FALSE
    /\ UNCHANGED <<now, msgs, clsf, rems, sess, req, ops, sweep, engines>>
    /\ UNCHANGED <<cache, redisKeys, fallbackKeys, calls, posts>>

RedisRecovers ==
    /\ ~redisUp
    /\ redisUp' = TRUE
    /\ UNCHANGED <<now, msgs, clsf, rems, sess, req, ops, sweep, engines>>
    /\ UNCHANGED <<cache, redisKeys, fallbackKeys, calls, posts>>

\* the clock, in steps around the marker's time to live
SendSteps == {MarkerTTL - 1, MarkerTTL, MarkerTTL + 1}
SendHorizon == MarkerTTL + 1

TickSend ==
    /\ \E d \in SendSteps : now + d <= SendHorizon /\ now' = now + d
    /\ UNCHANGED <<msgs, clsf, rems, sess, req, ops, sweep, delivery, engines>>

NextSend ==
    \/ \E k \in Call, m \in MsgIds : StartSend(k, m)
    \/ \E k \in Call : MarkerRead(k)
    \/ \E k \in Call, o \in TransportOutcomes, b \in PlatformIds : Post(k, o, b)
    \/ \E k \in Call : MarkerWrite(k)
    \/ RedisFails
    \/ RedisRecovers
    \/ TickSend

SpecSend == Init /\ [][NextSend]_vars

\* ---------------------------------------------------- delivery properties

\* C4: a Send that starts after a Send of the same message_id has succeeded,
\* and reads the marker before its TTL has elapsed, makes no transport call
\* and returns success, skipped = true and the external id of the first Send.
C4_RepeatedSendSkipped ==
    \A k \in Call : \A j \in calls[k].after :
        (calls[k].pc = "done" /\ calls[k].readAt < calls[j].markAt + MarkerTTL) =>
            /\ calls[k].sent = 0
            /\ calls[k].result.success
            /\ calls[k].result.skipped
            /\ calls[k].result.ext = calls[j].result.ext

\* C5: the platform accepts at most one POST per message_id, concurrent
\* Sends included.
C5_SinglePostPerMessage ==
    \A m \in MsgIds : posts[m].ok <= 1
\* ------------------------------------------------------- reminder sweep

StoredMessages(p) ==
    {[id |-> RowId(p, 0), client |-> StoredClient(p), content |-> "a", type |-> "user",
      at |-> StoredAt(p), first |-> (p # 2), n |-> 1, owner |-> NoTx, lock |-> NoTx],
     [id |-> RowId(p, 3), client |-> StoredClient(p), content |-> BotText, type |-> "bot_auto",
      at |-> StoredAt(p), first |-> FALSE, n |-> 1, owner |-> NoTx, lock |-> NoTx]}

StoredReminder(p, k, delay) ==
    [id |-> RowId(p, k), client |-> StoredClient(p), msg |-> RowId(p, 0),
     sched |-> StoredAt(p) + delay, created |-> StoredAt(p),
     sent |-> FALSE, cancelled |-> FALSE, by |-> "none", failed |-> 0,
     owner |-> NoTx, lock |-> NoTx]

InitRem ==
    /\ now = Delay15Min
    /\ msgs = UNION {StoredMessages(p) : p \in Stored}
    /\ clsf = {[msg |-> RowId(p, 0), scenario |-> "auto"] : p \in Stored}
    /\ rems = {StoredReminder(p, 4, Delay15Min) : p \in Stored}
                \cup {StoredReminder(p, 5, Delay30Min) : p \in Stored}
    /\ sess = [c \in Clients |->
                 IF c \in StoredClients
                 THEN [st |-> "OPEN", owner |-> NoTx, lock |-> NoTx, last |-> Gap, pend |-> Gap]
                 ELSE NoSession]
    /\ req = [p \in Req |-> IdleReq]
    /\ ops = 0
    /\ InitDelivery
    /\ InitEngines
    /\ InitSweep

Row(id) == CHOOSE r \in rems : r.id = id

\* a claim that takes rows whatever their lock
ClaimableAnyLock(t) ==
    {r \in Visible(rems, t) : r.sched <= now /\ ~r.sent /\ ~r.cancelled}

\* get_pending_reminders: due, unsent, not cancelled, FOR UPDATE SKIP LOCKED
\* (its LIMIT of 50 exceeds the number of stored reminders)
Claimable(t) ==
    {r \in Visible(rems, t) : /\ r.sched <= now
                              /\ ~r.sent
                              /\ ~r.cancelled
                              /\ r.lock \in {NoTx, t}}

\* process_pending_reminders, up to the loop: the claiming session selects
\* and locks; nothing due: return (the session closes)
Claim(w) ==
    /\ workers[w].pc = "idle"
    /\ \A v \in Worker : v < w => workers[v].pc # "idle"
    /\ LET ids == {r.id : r \in Claimable(ClaimTx(w))}
       IN  /\ rems' = {IF r.id \in ids THEN [r EXCEPT !.lock = ClaimTx(w)] ELSE r : r \in rems}
           /\ workers' = [workers EXCEPT ![w] =
                 IF ids = {} THEN [IdleWorker EXCEPT !.pc = "done"]
                 ELSE [pc |-> "loop", todo |-> ids, got |-> ids, claimAt |-> now]]
    /\ UNCHANGED <<now, msgs, clsf, sess, req, ops, delivery, engines, cancels, manual, hist>>

\* the loop takes the claimed reminders in scheduled_at order
NextUp(w) == {id \in workers[w].todo : \A o \in workers[w].todo : Row(id).sched <= Row(o).sched}

\* send_reminder returns: the loop goes on; after the last reminder the
\* claiming session closes and its row locks go
AfterReminder(w, id) ==
    IF workers[w].todo = {id}
    THEN [IdleWorker EXCEPT !.pc = "done"]
    ELSE [workers[w] EXCEPT !.todo = @ \ {id}]

Released(rows, w, id) ==
    IF workers[w].todo = {id} THEN RollbackRows(rows, ClaimTx(w)) ELSE rows
\* the client wrote after the reminder was created
Responded(t, row) ==
    \E m \in Visible(msgs, t) :
        m.client = row.client /\ m.type = "user" /\ m.at > row.created

\* what send_response gives send_reminder:
\*   ok:       a success result
\*   rejected: a failure result; every failure result carries retryable False
\*   raised:   the retryable failures, re-raised after the last attempt
SendOutcomes == {"ok", "rejected", "raised"}

\* the UPDATE of the reminder row from the send_reminder session needs the
\* row lock. Free: the write goes through and is committed. Held by another
\* transaction: the statement waits, and when the wait is broken off (a
\* statement timeout, a dropped connection) the exception handler logs it
\* and the session is rolled back.
CanWrite(t, id) == Row(id).lock \in {NoTx, t}

\* mark_reminder_sent
MarkSent(set, id) ==
    {IF r.id = id THEN [r EXCEPT !.sent = TRUE] ELSE r : r \in set}

\* the failure branch: failed_attempts += 1; is_cancelled once the attempts
\* are used up or the failure is not retryable
RecordFailure(set, id, retryable) ==
    {IF r.id = id
     THEN [r EXCEPT !.failed = @ + 1,
                    !.cancelled = @ \/ r.failed + 1 >= MaxRetryAttempts \/ ~retryable,
                    !.by = IF r.failed + 1 >= MaxRetryAttempts \/ ~retryable
                           THEN "failed" ELSE @]
     ELSE r : r \in set}

\* send_reminder(id) called from the loop of worker w, in a session of its
\* own (tpl: a REMINDER template exists; o: what the transport call gives):
\*   reminder cancelled or sent: return
\*   the client responded: cancel_client_reminders(client_id), commit, return
\*   no template: return
\*   no webhook URL for the client: mark the reminder sent, commit, return
\*   else insert the reply row and call send_response; success: mark sent
\*   and commit; failure result: record the failure and commit; exception:
\*   logged, the session rolls back
SendReminder(w, id, tpl, o) ==
    /\ workers[w].pc = "loop"
    /\ id \in NextUp(w)
    /\ LET t == SendTx(w)
           row == Row(id)
           tgt == {r.id : r \in CancelTargets(rems, t, row.client, 0)}
           reply == [id |-> ReplyId(w, id), client |-> row.client, content |-> BotText,
                     type |-> "bot_auto", at |-> now, first |-> FALSE, n |-> 1,
                     owner |-> NoTx, lock |-> NoTx]
           called == ~(row.cancelled \/ row.sent) /\ ~Responded(t, row) /\ tpl
                        /\ HasWebhook(row.client)
           written == CanWrite(t, id) /\ (~called \/ o # "raised")
       IN  /\ o = "ok" \/ called
           /\ hist' = [hist EXCEPT ![id].delivered = IF called /\ o = "ok" THEN @ + 1 ELSE @,
                                   ![id].failed = IF called /\ o # "ok" THEN @ + 1 ELSE @]
           /\ IF row.cancelled \/ row.sent \/ (~Responded(t, row) /\ ~tpl)
              THEN /\ rems' = Released(rems, w, id)
                   /\ msgs' = msgs
              ELSE IF Responded(t, row)
              THEN /\ rems' = Released(Cancelled(rems, tgt, "responded"), w, id)
                   /\ msgs' = msgs
              ELSE IF ~written
              THEN /\ rems' = Released(rems, w, id)
                   /\ msgs' = msgs
              ELSE /\ rems' = Released(IF called /\ o = "rejected"
                                       THEN RecordFailure(rems, id, FALSE)
                                       ELSE MarkSent(rems, id), w, id)
                   /\ msgs' = msgs \cup {reply}
           /\ workers' = [workers EXCEPT ![w] = AfterReminder(w, id)]
    /\ UNCHANGED <<now, clsf, sess, req, ops, delivery, engines, cancels, manual>>

\* ---------------------------------- POST /api/reminders/{client_id}/cancel

\* the after_message_id values a request carries: none (0) or the id of one
\* of the client's USER messages
AfterChoices(c) == {0} \cup {m.id : m \in {q \in msgs : q.client = c /\ q.type = "user"}}

\* cancel_client_reminders, first statement: the referenced message is read
\* FOR UPDATE SKIP LOCKED; a row another transaction holds is not returned
CancelLookup(x, c, after) ==
    /\ cancels[x].pc = "idle"
    /\ \A y \in CancelCall : y < x => cancels[y].pc # "idle"
    /\ after \in AfterChoices(c)
    /\ LET t == CancelTx(x)
           found == IF after = 0 THEN {} ELSE AfterMessage(t, after)
       IN  /\ msgs' = {IF m \in found THEN [m EXCEPT !.lock = t] ELSE m : m \in msgs}
           /\ cancels' = [cancels EXCEPT ![x] =
                 [IdleCancel EXCEPT !.pc = "apply", !.client = c, !.after = after,
                                    !.found = {m.id : m \in found}]]
    /\ UNCHANGED <<now, clsf, rems, sess, req, ops, delivery, engines, workers, manual, hist>>

\* the reminders the request is meant to cancel: the client's pending ones
\* whose message is newer than the referenced one
Meant(c, after) ==
    {r.id : r \in {q \in PendingOf(Committed(rems), NoTx, c) :
                     \E m \in msgs, a \in msgs :
                        /\ m.id = q.msg /\ m.client = c
                        /\ a.id = after
                        /\ m.at > a.at}}

\* second statement and the commit: the reminders are read FOR UPDATE SKIP
\* LOCKED, cancelled, and the transaction commits
CancelApply(x) ==
    /\ cancels[x].pc = "apply"
    /\ LET t == CancelTx(x)
           c == cancels[x].client
           found == {m \in msgs : m.id \in cancels[x].found}
           tgt == {r.id : r \in {q \in ScopedTo(rems, t, c, found) : q.lock \in {NoTx, t}}}
       IN  /\ rems' = Cancelled(rems, tgt, "cancel")
           /\ msgs' = CommitRows(msgs, t)
           /\ cancels' = [cancels EXCEPT ![x] =
                 [IdleCancel EXCEPT
                    !.pc = "done",
                    !.extra = IF cancels[x].after = 0 THEN {}
                              ELSE tgt \ Meant(c, cancels[x].after),
                    !.missed = IF cancels[x].after = 0 THEN {}
                               ELSE Meant(c, cancels[x].after) \ tgt]]
    /\ UNCHANGED <<now, clsf, sess, req, ops, delivery, engines, workers, manual, hist>>

\* POST /api/reminders/{reminder_id}/send: mark_reminder_sent and commit;
\* the UPDATE waits for the row lock
ManualSend(id) ==
    /\ manual < MaxManual
    /\ Row(id).lock = NoTx
    /\ rems' = {IF r.id = id THEN [r EXCEPT !.sent = TRUE] ELSE r : r \in rems}
    /\ manual' = manual + 1
    /\ UNCHANGED <<now, msgs, clsf, sess, req, ops, delivery, engines, workers, cancels, hist>>

\* the clock moves to the next time a reminder falls due
Moments == {r.sched : r \in rems}

TickRem ==
    /\ \E t \in Moments : t > now /\ t <= Delay15Min + Gap /\ now' = t
    /\ UNCHANGED <<msgs, clsf, rems, sess, req, ops, delivery, sweep, engines>>

NextRem ==
    \/ \E w \in Worker : Claim(w)
    \/ \E w \in Worker, id \in RemIds, tpl \in BOOLEAN, o \in SendOutcomes :
          SendReminder(w, id, tpl, o)
    \/ \E x \in CancelCall, c \in StoredClients, after \in {0} \cup {RowId(p, 0) : p \in Stored} :
          CancelLookup(x, c, after)
    \/ \E x \in CancelCall : CancelApply(x)
    \/ \E id \in RemIds : ManualSend(id)
    \/ TickRem

SpecRem == InitRem /\ [][NextRem]_vars
\* ------------------------------------------------------ sweep properties

\* the worker's claiming session is open
InSweep(w) == workers[w].pc \notin {"idle", "done"}

MessageOf(r) == CHOOSE m \in msgs : m.id = r.msg

\* C6: a finished Cancel(client, after_message_id = M) has cancelled exactly
\* the client's pending reminders of messages created after M.
C6_CancelExactlyAfter ==
    \A x \in CancelCall :
        cancels[x].pc = "done" => (cancels[x].extra = {} /\ cancels[x].missed = {})

\* C7: no reminder is delivered to the client more than once.
C7_DeliveredAtMostOnce ==
    \A id \in RemIds : hist[id].delivered <= 1

\* C8: while a worker's claim is open, every reminder it claimed was due when
\* claimed and is unsent and not cancelled, and the claims of two workers
\* whose claims are open together share no reminder.
C8_ClaimsDueAndDisjoint ==
    /\ \A w \in Worker :
          InSweep(w) =>
             \A id \in workers[w].got :
                /\ Row(id).sched <= workers[w].claimAt
                /\ ~Row(id).sent
                /\ ~Row(id).cancelled
    /\ \A w \in Worker, v \in Worker :
          (w # v /\ InSweep(w) /\ InSweep(v)) => workers[w].got \cap workers[v].got = {}

\* two workers hold claims at the same time, both non-empty
C8_ConcurrentClaims ==
    \E w \in Worker, v \in Worker :
        /\ w # v
        /\ InSweep(w) /\ InSweep(v)
        /\ workers[w].got # {} /\ workers[v].got # {}

\* C9: a reminder's failed_attempts equals the number of its failed delivery
\* attempts.
C9_FailuresCounted ==
    \A r \in rems : r.failed = hist[r.id].failed

\* C10: the sweep never cancels a pending reminder of the client's newest
\* USER message for the reason that the client responded.
C10_NewestReminderKept ==
    \A r \in rems :
        (r.cancelled /\ r.by = "responded") =>
            \E m \in msgs :
                m.client = r.client /\ m.type = "user" /\ m.at > MessageOf(r).at

\* ------------------------------------------- orchestration properties

\* the request has run to its commit and answered with a processing status
Finished(p) == req[p].pc = "done" /\ req[p].result \in {"success", "escalated"}

\* C11: once a request has finished processing a new USER message of a
\* client, no committed reminder that is unsent and not cancelled is attached
\* to an earlier message of that client.
C11_EarlierRemindersCancelled ==
    \A p \in Req :
        Finished(p) =>
            \A r \in Committed(rems) :
                (r.client = req[p].client /\ MessageOf(r).at < MessageOf([msg |-> req[p].msg]).at)
                    => (r.sent \/ r.cancelled)

\* ------------------------------------------------------- classification
\* Classification of one incoming text of client c1 against a stored
\* history, on the two intake paths: the HTTP route (create_message) and
\* MessageProcessingService.classify_message. Similarities and confidences
\* are in percent.
MaxBatches == 2
MassWindow == 600
MassThreshold == 5
SimilarityThreshold == 70
RecentLimit == 100
MassConfidence == 95

\* the stored Message rows, newest first; a batch stands for n rows that
\* agree in creation time, client, type and similarity to the incoming text
Batch == [n : {1, 4, RecentLimit}, sim : {SimilarityThreshold - 1, SimilarityThreshold},
          at : {0, 1}, client : Clients, type : {"user", "bot_auto"}]
Histories ==
    {h \in UNION {[1 .. k -> Batch] : k \in 0 .. MaxBatches} :
        \A i \in 1 .. Len(h) - 1 : h[i].at >= h[i + 1].at}
\* the moment of the classification: rows created at 0 have left the window
ClassifyAt == MassWindow + 1
IntakePaths == {"route", "service"}
\* what AIClassifier.classify returns
AiResults == {[success |-> FALSE, scenario |-> "UNKNOWN", conf |-> 0],
              [success |-> TRUE, scenario |-> "UNKNOWN", conf |-> 60],
              [success |-> TRUE, scenario |-> "GREETING", conf |-> 90]}
NoClassification == [success |-> FALSE, scenario |-> "none", conf |-> 0]

InitClassify ==
    /\ InitIntake /\ InitDelivery /\ InitSweep
    /\ dialog = IdleDialog
    /\ fanout = IdleFanout
    /\ \E h \in Histories, path \in IntakePaths :
          decision = [pc |-> "start", path |-> path, hist |-> h, similar |-> 0,
                      mass |-> FALSE, ai |-> 0, result |-> NoClassification]

RECURSIVE Limit(_, _)
\* .limit(k) of a result listed in batches
Limit(h, k) ==
    IF h = <<>> \/ k = 0 THEN <<>>
    ELSE IF Head(h).n <= k THEN <<Head(h)>> \o Limit(Tail(h), k - Head(h).n)
    ELSE <<[Head(h) EXCEPT !.n = k]>>

RECURSIVE Rows(_)
Rows(h) == IF h = <<>> THEN 0 ELSE Head(h).n + Rows(Tail(h))

\* the detector's SELECT: USER rows of other clients inside the window,
\* newest first, at most RecentLimit of them
RecentMessages(h, c) ==
    Limit(SelectSeq(h, LAMBDA b : /\ b.at >= ClassifyAt - MassWindow
                                  /\ b.type = "user"
                                  /\ b.client # c),
          RecentLimit)

Similar(h) == SelectSeq(h, LAMBDA b : b.sim >= SimilarityThreshold)

\* detect_mass_outage: similar_messages_count and is_mass_outage
SimilarCount(h, c) ==
    IF Rows(RecentMessages(h, c)) < MassThreshold
    THEN Rows(RecentMessages(h, c))
    ELSE Rows(Similar(RecentMessages(h, c)))

IsMassOutage(h, c) ==
    /\ Rows(RecentMessages(h, c)) >= MassThreshold
    /\ Rows(Similar(RecentMessages(h, c))) >= MassThreshold

\* create_message, STEP 4: the route asks the AI classifier
RouteClassify(a) ==
    /\ decision.pc = "start"
    /\ decision.path = "route"
    /\ decision' = [decision EXCEPT !.pc = "done", !.ai = @ + 1, !.result = a]
    /\ UNCHANGED <<now, msgs, clsf, rems, sess, req, ops, delivery, sweep, dialog, fanout>>

\* classify_message: the detector runs first
DetectMassOutage ==
    /\ decision.pc = "start"
    /\ decision.path = "service"
    /\ decision' = [decision EXCEPT !.pc = "detected",
                                    !.similar = SimilarCount(decision.hist, "c1"),
                                    !.mass = IsMassOutage(decision.hist, "c1")]
    /\ UNCHANGED <<now, msgs, clsf, rems, sess, req, ops, delivery, sweep, dialog, fanout>>

\* classify_message: the override, or else the AI classifier
ClassifyMessage(a) ==
    /\ decision.pc = "detected"
    /\ decision' =
          IF decision.mass
          THEN [decision EXCEPT !.pc = "done",
                                !.result = [success |-> TRUE, scenario |-> "MASS_OUTAGE",
                                            conf |-> MassConfidence]]
          ELSE [decision EXCEPT !.pc = "done", !.ai = @ + 1, !.result = a]
    /\ UNCHANGED <<now, msgs, clsf, rems, sess, req, ops, delivery, sweep, dialog, fanout>>

NextClassify ==
    \/ \E a \in AiResults : RouteClassify(a)
    \/ DetectMassOutage
    \/ \E a \in AiResults : ClassifyMessage(a)

SpecClassify == InitClassify /\ [][NextClassify]_vars

\* USER rows of other clients inside the window that are near-identical to
\* the incoming text
NearIdentical(h, c) ==
    Rows(SelectSeq(h, LAMBDA b : /\ b.at >= ClassifyAt - MassWindow
                                 /\ b.type = "user"
                                 /\ b.client # c
                                 /\ b.sim >= SimilarityThreshold))

\* C12: with at least 5 near-identical USER messages of other clients inside
\* the window, a finished classification is MASS_OUTAGE with confidence 0.95
\* and the AI classifier was not called, on either intake path.
C12_MassOutageOverrides ==
    (decision.pc = "done" /\ NearIdentical(decision.hist, "c1") >= MassThreshold) =>
        /\ decision.result.scenario = "MASS_OUTAGE"
        /\ decision.result.conf = MassConfidence
        /\ decision.ai = 0

\* ------------------------------------------------------ dialog lifecycle
\* One client's ChatSession row under the inactivity sweep
\* (process_inactive_sessions, one run per scheduler instance) and under
\* update_activity of accepted messages.
MaxSweepers == 2
MaxActs == 1
MaxMinutes == 5
FarewellDelay == 120
CloseTimeout == 180
LookBack == 60
SweepInterval == 60

Sweeper == 1 .. MaxSweepers
Act == 1 .. MaxActs
SweepTx(w) == 400 + w
ActTx(p) == 500 + p
\* a datetime column that is NULL
NoTime == 0 - 1
\* no ChatSession row
NoRow == [st |-> "none", last |-> 0, farewell |-> NoTime, closedAt |-> NoTime]
OpenRow(t) == [st |-> "OPEN", last |-> t, farewell |-> NoTime, closedAt |-> NoTime]

IdleSweeper == [pc |-> "idle", obj |-> NoRow, loaded |-> FALSE]
IdleAct == [pc |-> "idle", obj |-> NoRow, at |-> 0, wasClosed |-> FALSE, left |-> NoRow]

\* row: the committed row; lock, pend: the transaction holding the row lock
\* and the row as it has written it; fmsgs: the farewell Message rows;
\* delivered, closes: farewells the platform accepted, close transitions made
InitDialog ==
    /\ InitIntake /\ InitDelivery /\ InitSweep
    /\ decision = IdleDecision
    /\ fanout = IdleFanout
    /\ \E r \in {NoRow, OpenRow(0)} :
          dialog = [pc |-> "run", row |-> r, lock |-> NoTx, pend |-> r, fmsgs |-> {},
                    sw |-> [w \in Sweeper |-> IdleSweeper],
                    act |-> [p \in Act |-> IdleAct],
                    delivered |-> 0, closes |-> 0, acts |-> 0]

\* what a SELECT of transaction t returns
View(t) == IF dialog.lock = t THEN dialog.pend ELSE dialog.row
\* session.commit() of transaction t
RowAfterCommit(t) == IF dialog.lock = t THEN dialog.pend ELSE dialog.row
LockAfterCommit(t) == IF dialog.lock = t THEN NoTx ELSE dialog.lock
MsgsAfterCommit(t) == {[m EXCEPT !.owner = IF @ = t THEN NoTx ELSE @] : m \in dialog.fmsgs}
Free(t) == dialog.lock \in {NoTx, t}

DialogFrame == UNCHANGED <<msgs, clsf, rems, sess, req, ops, delivery, sweep, decision, fanout>>

\* get_sessions_needing_farewell
NeedsFarewell(r) == r.st = "OPEN" /\ r.last <= now - FarewellDelay /\ r.farewell = NoTime
\* get_inactive_sessions
Inactive(r) == r.st = "OPEN" /\ r.last <= now - CloseTimeout

\* process_inactive_sessions starts: the sessions needing a farewell
SweepFarewells(w) ==
    /\ dialog.sw[w].pc = "idle"
    /\ LET r == View(SweepTx(w))
       IN  dialog' = [dialog EXCEPT !.sw[w] =
                        IF NeedsFarewell(r)
                        THEN [pc |-> "farewell", obj |-> r, loaded |-> TRUE]
                        ELSE [pc |-> "mid", obj |-> NoRow, loaded |-> FALSE]]
    /\ UNCHANGED now
    /\ DialogFrame

\* the look-back for a farewell message created in the last minute
RecentFarewell(t) ==
    \E m \in dialog.fmsgs : m.owner \in {NoTx, t} /\ m.at >= now - LookBack

FarewellOutcomes == {"ok", "rejected", "raised"}

\* send_farewell_message up to the webhook call: re-read and refresh, the
\* two guards, the reply row (tpl: a FAREWELL template exists), the delivery
SendFarewell(w, tpl, o) ==
    /\ dialog.sw[w].pc = "farewell"
    /\ LET t == SweepTx(w)
           r == View(t)
           m == [at |-> now, owner |-> t]
       IN  IF r.farewell # NoTime \/ RecentFarewell(t) \/ ~tpl
           THEN dialog' = [dialog EXCEPT !.sw[w].pc = "mid", !.sw[w].obj = r]
           ELSE dialog' = [dialog EXCEPT
                             !.fmsgs = @ \cup {m},
                             !.delivered = IF o = "ok" THEN @ + 1 ELSE @,
                             !.sw[w].obj = r,
                             !.sw[w].pc = IF o = "raised" THEN "mid" ELSE "mark"]
    /\ UNCHANGED now
    /\ DialogFrame

\* session.farewell_sent_at = utcnow(); flush: an UPDATE, waits for the row
MarkFarewell(w) ==
    /\ dialog.sw[w].pc = "mark"
    /\ Free(SweepTx(w))
    /\ dialog' = [dialog EXCEPT !.pend = [View(SweepTx(w)) EXCEPT !.farewell = now],
                                !.lock = SweepTx(w),
                                !.sw[w].obj = [@ EXCEPT !.farewell = now],
                                !.sw[w].pc = "mid"]
    /\ UNCHANGED now
    /\ DialogFrame

\* commit after the farewells, then get_inactive_sessions; an object this
\* session has loaded keeps its attributes (expire_on_commit is off)
CommitFarewells(w) ==
    /\ dialog.sw[w].pc = "mid"
    /\ LET t == SweepTx(w)
           r == RowAfterCommit(t)
       IN  dialog' = [dialog EXCEPT
                        !.row = r,
                        !.lock = LockAfterCommit(t),
                        !.fmsgs = MsgsAfterCommit(t),
                        !.sw[w] = IF Inactive(r)
                                  THEN [pc |-> "close",
                                        obj |-> IF dialog.sw[w].loaded THEN dialog.sw[w].obj ELSE r,
                                        loaded |-> TRUE]
                                  ELSE IdleSweeper]
    /\ UNCHANGED now
    /\ DialogFrame

\* a copy of should_close without the branch for a session that has no
\* farewell
ShouldCloseAfterFarewell(o) ==
    /\ o.farewell # NoTime
    /\ now - o.farewell >= CloseTimeout - FarewellDelay
    /\ now - o.last >= CloseTimeout

ShouldClose(o) ==
    IF o.farewell # NoTime
    THEN now - o.farewell >= CloseTimeout - FarewellDelay /\ now - o.last >= CloseTimeout
    ELSE now - o.last >= CloseTimeout

\* the closing loop: should_close, close_session (flush: an UPDATE)
CloseSession(w) ==
    /\ dialog.sw[w].pc = "close"
    /\ LET t == SweepTx(w)
           o == dialog.sw[w].obj
       IN  IF ShouldClose(o) /\ o.st # "CLOSED"
           THEN /\ Free(t)
                /\ dialog' = [dialog EXCEPT
                                !.pend = [View(t) EXCEPT !.st = "CLOSED", !.closedAt = now],
                                !.lock = t,
                                !.closes = @ + 1,
                                !.sw[w].pc = "end"]
           ELSE dialog' = [dialog EXCEPT !.sw[w] = IdleSweeper]
    /\ UNCHANGED now
    /\ DialogFrame

\* the sweep's last commit
SweepCommit(w) ==
    /\ dialog.sw[w].pc = "end"
    /\ dialog' = [dialog EXCEPT !.row = RowAfterCommit(SweepTx(w)),
                                !.lock = LockAfterCommit(SweepTx(w)),
                                !.sw[w] = IdleSweeper]
    /\ UNCHANGED now
    /\ DialogFrame

\* update_activity of an incoming message: get_or_create_session's SELECT
GetSession(p) ==
    /\ dialog.act[p].pc = "idle"
    /\ dialog' = [dialog EXCEPT !.act[p].pc = "upd",
                                !.act[p].obj = View(ActTx(p)),
                                !.acts = @ + 1]
    /\ UNCHANGED now
    /\ DialogFrame

\* the INSERT of a new session, or the reopening and last_activity_at, flushed
UpdateActivity(p) ==
    /\ dialog.act[p].pc = "upd"
    /\ Free(ActTx(p))
    /\ LET t == ActTx(p)
           o == dialog.act[p].obj
           r == View(t)
       IN  IF o.st = "none"
           THEN IF r.st # "none"
                THEN dialog' = [dialog EXCEPT !.act[p].pc = "failed"]
                ELSE dialog' = [dialog EXCEPT !.pend = OpenRow(now), !.lock = t,
                                              !.act[p].pc = "commit", !.act[p].at = now]
           ELSE dialog' = [dialog EXCEPT
                             !.pend = IF o.st = "CLOSED"
                                      THEN OpenRow(now)
                                      ELSE [r EXCEPT !.last = now],
                             !.lock = t,
                             !.act[p].pc = "commit", !.act[p].at = now,
                             !.act[p].wasClosed = (r.st = "CLOSED")]
    /\ UNCHANGED now
    /\ DialogFrame

\* the request's commit: the message is accepted
AcceptMessage(p) ==
    /\ dialog.act[p].pc = "commit"
    /\ dialog' = [dialog EXCEPT !.row = RowAfterCommit(ActTx(p)),
                                !.lock = LockAfterCommit(ActTx(p)),
                                !.act[p].pc = "done",
                                !.act[p].left = RowAfterCommit(ActTx(p))]
    /\ UNCHANGED now
    /\ DialogFrame

TickDialog ==
    /\ now < MaxMinutes * SweepInterval
    /\ now' = now + SweepInterval
    /\ UNCHANGED dialog
    /\ DialogFrame

NextDialog ==
    \/ \E w \in Sweeper : SweepFarewells(w)
    \/ \E w \in Sweeper, tpl \in BOOLEAN, o \in FarewellOutcomes : SendFarewell(w, tpl, o)
    \/ \E w \in Sweeper : MarkFarewell(w)
    \/ \E w \in Sweeper : CommitFarewells(w)
    \/ \E w \in Sweeper : CloseSession(w)
    \/ \E w \in Sweeper : SweepCommit(w)
    \/ \E p \in Act : GetSession(p)
    \/ \E p \in Act : UpdateActivity(p)
    \/ \E p \in Act : AcceptMessage(p)
    \/ TickDialog

SpecDialog == InitDialog /\ [][NextDialog]_vars

\* C13: while the client stays silent, the sweeps deliver at most one
\* farewell and make the OPEN -> CLOSED transition (status and closed_at
\* written) at most once.
C13_OneFarewellOneClose ==
    dialog.acts = 0 => (dialog.delivered <= 1 /\ dialog.closes <= 1)

\* C14: an accepted message leaves a session that is OPEN with
\* last_activity_at set at the update, and when the session was CLOSED it
\* leaves closed_at and farewell_sent_at unset.
C14_ActivityReopens ==
    \A p \in Act :
        dialog.act[p].pc = "done" =>
            /\ dialog.act[p].left.st = "OPEN"
            /\ dialog.act[p].left.last = dialog.act[p].at
            /\ dialog.act[p].wasClosed =>
                  /\ dialog.act[p].left.closedAt = NoTime
                  /\ dialog.act[p].left.farewell = NoTime

\* ---------------------------------------------------- escalation engine
\* EscalationManager.evaluate_escalation on one message, called directly
\* with the content, and as the orchestrators call it. Confidences and
\* emotion scores are in percent.
ConfidenceThreshold == 85
EscalateBelow == 70
FailuresTrigger == 2
RequestsTrigger == 3
NegativeAbove == 50
MatchCap == 3
ExclaimWeight == 20
ComplaintWeight == 60
PositiveEmojiWeight == 20

Levels == <<"low", "medium", "high", "critical">>
LevelRank(l) == CHOOSE i \in 1 .. Len(Levels) : Levels[i] = l
Scenarios == {"GREETING", "REFERRAL", "SCHEDULE_CHANGE", "UNKNOWN"}
EscalationScenarios == {"SCHEDULE_CHANGE", "COMPLAINT", "MISSING_TRAINER",
                        "CROSS_EXTENSION", "UNKNOWN"}
Confidences == {69, 84, 85}
\* a message content by what the scans look at: its length, the runs of
\* "!!", the matches of "жалоб", a positive emoji, a digit
MessageContents ==
    [chars : {1}, exclaims : {0, 1, 3, 4}, complaints : {0, 1}, positive : BOOLEAN,
     digits : BOOLEAN]
EmptyContent == [chars |-> 0, exclaims |-> 0, complaints |-> 0, positive |-> FALSE,
                 digits |-> FALSE]
Callers == {"direct", "route", "service"}

Min(a, b) == IF a < b THEN a ELSE b
Max(a, b) == IF a > b THEN a ELSE b

\* analyze_emotion: the score, and is_negative
EmotionScore(x) ==
    Max(0, Min(100, ExclaimWeight * Min(x.exclaims, MatchCap)
                      + ComplaintWeight * Min(x.complaints, MatchCap)
                      - (IF x.positive THEN PositiveEmojiWeight ELSE 0)))
IsNegative(x) == EmotionScore(x) > NegativeAbove

\* the checks of evaluate_escalation, each on the level and reasons so far
NoReasons == [level |-> "low", reasons |-> <<>>]

LowConfidence(e, conf) ==
    IF conf < ConfidenceThreshold
    THEN [level |-> "medium", reasons |-> Append(e.reasons, "low_confidence")]
    ELSE e

UnknownScenario(e, scenario) ==
    IF scenario = "UNKNOWN"
    THEN [level |-> "high", reasons |-> Append(e.reasons, "unknown_scenario")]
    ELSE e

\* a copy of RepeatedFailures that sets "medium" whatever came before
RepeatedFailuresMedium(e, failures) ==
    IF failures >= FailuresTrigger
    THEN [level |-> "medium", reasons |-> Append(e.reasons, "repeated_failed")]
    ELSE e

RepeatedFailures(e, failures) ==
    IF failures >= FailuresTrigger
    THEN [level |-> IF Len(e.reasons) + 1 > 1 THEN "high" ELSE "medium",
          reasons |-> Append(e.reasons, "repeated_failed")]
    ELSE e

RepeatedRequests(e, requests) ==
    IF requests >= RequestsTrigger
    THEN [level |-> "high", reasons |-> Append(e.reasons, "repeated_failed")]
    ELSE e

RecentEscalations(e, escalated) ==
    IF escalated
    THEN [level |-> "critical", reasons |-> Append(e.reasons, "complaint")]
    ELSE e

Raised(l) == Levels[Min(LevelRank(l) + 1, Len(Levels))]

\* message_content is None or empty: no scan
EmotionalTone(e, x) ==
    IF x.chars > 0 /\ IsNegative(x)
    THEN [level |-> Raised(e.level), reasons |-> Append(e.reasons, "complaint")]
    ELSE e

BeforeEmotion(d) ==
    RecentEscalations(
        RepeatedRequests(
            RepeatedFailures(
                UnknownScenario(LowConfidence(NoReasons, d.conf), d.scenario),
                d.failures),
            d.requests),
        d.escalated)

\* a copy of PriorityQueue that answers the default of priority_map.get
PriorityQueueDefault(l) == 10

\* _get_priority_queue
PriorityQueue(l) ==
    CASE l = "low" -> 10
      [] l = "medium" -> 7
      [] l = "high" -> 3
      [] l = "critical" -> 1
      [] OTHER -> 10

\* evaluate_escalation(message_id, scenario, confidence, client_id, x)
EvaluateEscalation(d, x) ==
    LET e == EmotionalTone(BeforeEmotion(d), x)
    IN  [level |-> e.level, reasons |-> e.reasons,
         should |-> (Len(e.reasons) > 0 \/ d.conf < EscalateBelow),
         queue |-> PriorityQueue(e.level),
         scanned |-> x.chars > 0]

NoEvaluation == [level |-> "low", reasons |-> <<>>, should |-> FALSE, queue |-> 10,
                 scanned |-> FALSE]

\* what process_message has in hand before it evaluates: a processed text
\* with its classification, no text left, or a classification that failed
ProcessedTexts == {"text", "empty", "unclassified"}

InitEvaluate ==
    /\ InitIntake /\ InitDelivery /\ InitSweep
    /\ dialog = IdleDialog
    /\ fanout = IdleFanout
    /\ \E caller \in Callers, sc \in Scenarios, cf \in Confidences,
          f \in {0, FailuresTrigger}, r \in {RequestsTrigger - 1, RequestsTrigger},
          esc \in BOOLEAN, x \in MessageContents \cup {EmptyContent},
          t \in ProcessedTexts :
          /\ caller # "service" => t = "text"
          /\ decision = [pc |-> "start", caller |-> caller, scenario |-> sc, conf |-> cf,
                         failures |-> f, requests |-> r, escalated |-> esc, content |-> x,
                         processed |-> t, result |-> NoEvaluation, requires |-> FALSE]

\* requires_escalation of the orchestrators
RequiresEscalation(d, res) ==
    \/ d.scenario \in EscalationScenarios
    \/ (d.scenario = "REFERRAL" /\ d.content.digits)
    \/ res.should

EvalFrame == UNCHANGED <<now, msgs, clsf, rems, sess, req, ops, delivery, sweep, dialog, fanout>>

\* a caller that hands the content to evaluate_escalation
Evaluate ==
    /\ decision.pc = "start"
    /\ decision.caller = "direct"
    /\ LET res == EvaluateEscalation(decision, decision.content)
       IN  decision' = [decision EXCEPT !.pc = "done", !.result = res, !.requires = res.should]
    /\ EvalFrame

\* create_message, STEP 6: evaluate_escalation without message_content
RouteEvaluate ==
    /\ decision.pc = "start"
    /\ decision.caller = "route"
    /\ LET res == EvaluateEscalation(decision, EmptyContent)
       IN  decision' = [decision EXCEPT !.pc = "done", !.result = res,
                                        !.requires = RequiresEscalation(decision, res)]
    /\ EvalFrame

\* MessageProcessingService.process_message with a classification:
\* evaluate_escalation, the same call
ServiceEvaluate ==
    /\ decision.pc = "start"
    /\ decision.caller = "service"
    /\ decision.processed = "text"
    /\ LET res == EvaluateEscalation(decision, EmptyContent)
       IN  decision' = [decision EXCEPT !.pc = "done", !.result = res,
                                        !.requires = RequiresEscalation(decision, res)]
    /\ EvalFrame

\* process_message with an empty text or a failed classification: it returns
\* before evaluate_escalation
ServiceFallback ==
    /\ decision.pc = "start"
    /\ decision.caller = "service"
    /\ decision.processed # "text"
    /\ decision' = [decision EXCEPT !.pc = "returned",
                        !.result = [level |-> "low",
                                    reasons |-> IF decision.processed = "unclassified"
                                                THEN <<"system_error">> ELSE <<>>,
                                    should |-> TRUE, queue |-> 10, scanned |-> FALSE],
                        !.requires = TRUE]
    /\ EvalFrame

NextEvaluate ==
    \/ Evaluate
    \/ RouteEvaluate
    \/ ServiceEvaluate
    \/ ServiceFallback

SpecEvaluate == InitEvaluate /\ [][NextEvaluate]_vars

AtLeast(l, m) == LevelRank(l) >= LevelRank(m)

\* C15: the level Evaluate returns is at least the level of every rule that
\* fired: medium for low confidence and for repeated failures, high for an
\* UNKNOWN scenario and for repeated contact, critical for a recent escalated
\* reply; the emotion scan leaves it at least where the other rules put it.
C15_LevelAtLeastEachRule ==
    decision.pc = "done" =>
        /\ decision.conf < ConfidenceThreshold => AtLeast(decision.result.level, "medium")
        /\ decision.scenario = "UNKNOWN" => AtLeast(decision.result.level, "high")
        /\ decision.failures >= FailuresTrigger => AtLeast(decision.result.level, "medium")
        /\ decision.requests >= RequestsTrigger => AtLeast(decision.result.level, "high")
        /\ decision.escalated => decision.result.level = "critical"
        /\ AtLeast(decision.result.level, BeforeEmotion(decision).level)

\* an UNKNOWN scenario at full confidence with repeated failures: the later
\* rule has fired on top of the earlier one
C15_UnknownThenRepeated ==
    /\ decision.pc = "done"
    /\ decision.scenario = "UNKNOWN"
    /\ decision.conf >= ConfidenceThreshold
    /\ decision.failures >= FailuresTrigger
    /\ decision.result.level = "high"

\* C16: for a content whose emotion score is above 0.5 the result the
\* orchestrator computes has reason COMPLAINT, its level is one notch above
\* the level of the other rules, and the message is escalated.
C16_NegativeEmotionEscalates ==
    (decision.pc = "done" /\ decision.caller # "direct" /\ IsNegative(decision.content)) =>
        /\ \E i \in 1 .. Len(decision.result.reasons) : decision.result.reasons[i] = "complaint"
        /\ decision.result.level = Raised(BeforeEmotion(decision).level)
        /\ decision.requires

\* ---------------------------------------------------------------------
\* delivery retries
\* ---------------------------------------------------------------------

\* the Send made transport calls and none of them succeeded
AllAttemptsFailed(k) ==
    /\ calls[k].pc = "done"
    /\ calls[k].sent > 0
    /\ ~calls[k].result.success

\* C17: a timeout, a network error and an HTTP 429 or 5xx answer are retried,
\* with at most three transport calls per Send, and a Send whose calls all
\* failed comes back to its caller as a result with success = false, never
\* as a success and never as a raised error: a 500 is answered by a further
\* attempt, and the outcome of a finished Send is a result.
C17_RetriedThenFailedResult ==
    \A k \in Call :
        /\ calls[k].sent <= MaxAttempts
        /\ AllAttemptsFailed(k) =>
              /\ calls[k].result.outcome # "raised"
              /\ calls[k].errors > 0 => calls[k].sent = MaxAttempts

\* C18: a 4xx answer other than 429 ends the Send at once: the Send is over
\* with a result of success = false and retryable = false, no further
\* transport call follows the answer, and a Send whose first answer it was
\* has made exactly one call.
C18_RejectedEndsSend ==
    \A k \in Call :
        calls[k].refused > 0 =>
            /\ calls[k].refused = 1
            /\ calls[k].pc = "done"
            /\ calls[k].result.outcome = "rejected"
            /\ ~calls[k].result.success
            /\ ~calls[k].result.retryable
            /\ calls[k].sent = calls[k].attempt
            /\ calls[k].attempt = 1 => calls[k].sent = 1

\* a Send refused on its first transport call, and a Send refused after an
\* attempt that was retried
C18_RejectedFirstAndAfterRetry ==
    /\ \E k \in Call : calls[k].refused = 1 /\ calls[k].sent = 1
                       /\ calls[k].pc = "done"
    /\ \E k \in Call : calls[k].refused = 1 /\ calls[k].sent > 1
                       /\ calls[k].pc = "done"


\* ---------------------------------------------------------------------
\* the answer of the intake request
\* ---------------------------------------------------------------------

TerminalStatuses == {"success", "fallback", "escalated", "duplicate"}

\* the request went through the rate limit and has answered
Answered(p) == req[p].pc = "done" /\ req[p].result # "rate_limited"

\* classification_result.get("success") was false for the request's message
ClassifyFailed(p) == req[p].pc = "done" /\ req[p].classified = "fail"

\* C19: every request that is not rate-limited answers with one status of
\* success, fallback, escalated, duplicate: duplicate when the dedup check
\* matched, fallback when no classification was obtained, escalated when the
\* classified message requires escalation, success otherwise.
C19_TerminalStatus ==
    \A p \in Req :
        Answered(p) =>
            /\ req[p].result \in TerminalStatuses
            /\ req[p].result = "duplicate" <=> req[p].orig # 0
            /\ req[p].result = "fallback" <=> req[p].classified = "fail"
            /\ req[p].result = "escalated" <=> req[p].classified = "esc"
            /\ req[p].result = "success" <=> req[p].classified \in {"auto", "farewell"}

\* C20: when the classifier answers success = false the request ends with
\* the escalation fallback: status fallback, no Classification row stored
\* for the message and no reminder created for it.
C20_FailedClassifyFallsBack ==
    \A p \in Req :
        ClassifyFailed(p) =>
            /\ req[p].result = "fallback"
            /\ \A k \in clsf : k.msg # req[p].msg
            /\ \A r \in rems : r.msg # req[p].msg


\* ---------------------------------------------------------------------
\* manual close and reopen (routes/dialogs.py), one request at a time
\* ---------------------------------------------------------------------
MaxManualOps == 3

\* get_or_create_session: the row, or a new OPEN one
GetOrCreate(r) == IF r.st = "none" THEN OpenRow(now) ELSE r

\* close_session on the row it was given
Closed(r) ==
    IF r.st = "CLOSED" THEN r ELSE [r EXCEPT !.st = "CLOSED", !.closedAt = now]

\* update_activity on the row it was given
Activity(r) ==
    [(IF r.st = "CLOSED" THEN OpenRow(r.last) ELSE r) EXCEPT !.last = now]

\* row: the committed ChatSession row; before, op: the row the last manual
\* request found and the request; n: requests made
InitManual ==
    /\ InitIntake /\ InitDelivery /\ InitSweep
    /\ decision = IdleDecision
    /\ fanout = IdleFanout
    /\ \E r \in {NoRow, OpenRow(0)} :
          dialog = [pc |-> "manual", row |-> r, before |-> r, op |-> "none", n |-> 0]

ManualFrame == UNCHANGED <<now, msgs, clsf, rems, sess, req, ops, delivery, sweep, decision, fanout>>

\* POST /api/dialogs/{client_id}/close
CloseDialog ==
    /\ dialog.pc = "manual"
    /\ dialog.n < MaxManualOps
    /\ dialog' = [dialog EXCEPT !.row = Closed(GetOrCreate(dialog.row)),
                                !.before = dialog.row, !.op = "close", !.n = @ + 1]
    /\ ManualFrame

\* POST /api/dialogs/{client_id}/reopen
ReopenDialog ==
    /\ dialog.pc = "manual"
    /\ dialog.n < MaxManualOps
    /\ dialog' = [dialog EXCEPT !.row = Activity(GetOrCreate(dialog.row)),
                                !.before = dialog.row, !.op = "reopen", !.n = @ + 1]
    /\ ManualFrame

\* one run of process_inactive_sessions with no other transaction under way;
\* marked: send_farewell_message reached the farewell_sent_at assignment
SweepRun(marked) ==
    /\ dialog.pc = "manual"
    /\ dialog.row.st = "OPEN"
    /\ LET r == dialog.row
           f == IF NeedsFarewell(r) /\ marked THEN [r EXCEPT !.farewell = now] ELSE r
           c == IF Inactive(f) /\ ShouldClose(f) THEN Closed(f) ELSE f
       IN  /\ c # r
           /\ dialog' = [dialog EXCEPT !.row = c, !.before = r, !.op = "sweep"]
    /\ ManualFrame

TickManual ==
    /\ dialog.pc = "manual"
    /\ now < MaxMinutes * SweepInterval
    /\ now' = now + SweepInterval
    /\ UNCHANGED <<dialog, msgs, clsf, rems, sess, req, ops, delivery, sweep, decision, fanout>>

NextManual ==
    \/ CloseDialog
    \/ ReopenDialog
    \/ \E marked \in BOOLEAN : SweepRun(marked)
    \/ TickManual

SpecManual == InitManual /\ [][NextManual]_vars

\* C21: a manual close of a CLOSED session and a manual reopen of an OPEN
\* session change nothing: status, closed_at, farewell_sent_at and
\* last_activity_at are what they were before the request.
C21_ManualOpsIdempotent ==
    /\ (dialog.pc = "manual" /\ dialog.op = "close" /\ dialog.before.st = "CLOSED")
          => dialog.row = dialog.before
    /\ (dialog.pc = "manual" /\ dialog.op = "reopen" /\ dialog.before.st = "OPEN")
          => dialog.row = dialog.before


\* ---------------------------------------------------------------------
\* reminders created at intake
\* ---------------------------------------------------------------------
Delay1Day == 86400

\* the delays of the reminder types 15MIN, 30MIN, 1DAY (create_reminder)
ReminderDelays == {Delay15Min, Delay30Min, Delay1Day}

\* the reminders of one delay stored for the message of request p
RemindersOf(p, d) == {r \in rems : r.msg = req[p].msg /\ r.sched - r.created = d}

\* the request's message went through classification and the commit
Processed(p) == req[p].pc = "done" /\ req[p].classified # "none"

\* C22: a processed message gets reminders exactly when its response is not
\* escalated and its scenario is neither FAREWELL nor UNKNOWN, and then one
\* reminder of each type 15MIN, 30MIN and 1DAY, scheduled that long after
\* its creation.
C22_RemindersPerType ==
    \A p \in Req :
        Processed(p) =>
            IF req[p].classified = "auto"
            THEN \A d \in ReminderDelays : Cardinality(RemindersOf(p, d)) = 1
            ELSE \A r \in rems : r.msg # req[p].msg


\* ---------------------------------------------------------------------
\* the priority queue of an evaluation
\* ---------------------------------------------------------------------

\* the documented queue number of each level
QueueOf == [l \in {"critical", "high", "medium", "low"} |->
               IF l = "critical" THEN 1 ELSE IF l = "high" THEN 3
               ELSE IF l = "medium" THEN 7 ELSE 10]

\* C23: the priority_queue of an evaluation is the queue number of its
\* level under CRITICAL 1, HIGH 3, MEDIUM 7, LOW 10: it lies in 1..10, and
\* no level more severe than the returned one has a larger number than it.
C23_QueueFollowsLevel ==
    decision.pc = "done" =>
        /\ decision.result.level \in DOMAIN QueueOf
        /\ decision.result.queue = QueueOf[decision.result.level]
        /\ decision.result.queue \in 1 .. 10
        /\ \A i \in 1 .. Len(Levels) :
              i > LevelRank(decision.result.level) =>
                  PriorityQueue(Levels[i]) < decision.result.queue

\* an evaluation that ended at the most severe level, raised by the emotion
\* rule
C23_CriticalFirstInQueue ==
    /\ decision.pc = "done"
    /\ decision.result.level = "critical"
    /\ decision.result.queue = 1


\* ---------------------------------------------------------------------
\* the per-client rate limit
\* ---------------------------------------------------------------------

\* the messages the client of request p has submitted and had stored within
\* the trailing minute: its USER rows
Submitted(p) ==
    RowCount({r \in Visible(msgs, p) : /\ r.client = req[p].client
                                       /\ r.type = "user"
                                       /\ r.at >= now - RateWindow})

\* the step that answers request p with 429
Refused(p) == req[p].pc = "rate" /\ req'[p].result = "rate_limited"

\* C24: a request is rate-limited only when its client has submitted at
\* least the limit of messages within the trailing minute, and the refused
\* request stores no Message row and leaves the session as it was.
C24_RateLimitedOnlyOverLimit ==
    [][\A p \in Req :
          Refused(p) => /\ Submitted(p) >= RateLimitPerMinute
                        /\ msgs' = msgs
                        /\ sess' = sess]_vars


\* ---------------------------------------------------------------------
\* cancellation under the sweep's claim
\* ---------------------------------------------------------------------

\* the step in which worker w's loop runs send_reminder for reminder id
Handled(w, id) ==
    /\ workers[w].pc = "loop"
    /\ id \in workers[w].todo
    /\ id \notin workers'[w].todo

\* the reminder row after the step
RowAfter(id) == CHOOSE r \in rems' : r.id = id

\* C25: when the worker handles a claimed reminder that is still pending and
\* a USER message of the client is newer than the reminder's creation,
\* nothing is delivered for the reminder and the reminder itself is
\* cancelled after the step, the claim's lock on its row notwithstanding.
C25_RespondedReminderCancelled ==
    [][\A w \in Worker, id \in RemIds :
          (/\ Handled(w, id)
           /\ ~Row(id).cancelled /\ ~Row(id).sent
           /\ Responded(SendTx(w), Row(id)))
             => /\ hist'[id] = hist[id]
                /\ RowAfter(id).cancelled]_vars

\* the step in which cancel request x runs its second statement and commits
Returns(x) == cancels[x].pc = "apply" /\ cancels'[x].pc = "done"

\* the pending reminders the predicate of request x selects, locked or not
Matching(x) ==
    {r.id : r \in ScopedTo(rems, CancelTx(x), cancels[x].client,
                           {m \in msgs : m.id \in cancels[x].found})}

\* C26: a cancel request skips no reminder: when it returns, every reminder
\* its predicate selects is cancelled or sent, also when a claim or another
\* cancel request holds the lock of one of them.
C26_CancelSkipsNothing ==
    [][\A x \in CancelCall :
          Returns(x) =>
              \A id \in Matching(x) : RowAfter(id).cancelled \/ RowAfter(id).sent]_vars


\* ---------------------------------------------------------------------
\* farewells of overlapping sweeps
\* ---------------------------------------------------------------------

\* no update_activity has run: one silence period since the initial state
Silent == dialog.pc = "run" /\ dialog.acts = 0

\* C27: within one silence period the platform is handed at most one
\* farewell, also when the steps of two sweeps over the session interleave.
C27_OneFarewellPerSilence ==
    Silent => dialog.delivered <= 1


\* ---------------------------------------------------------------------
\* the close condition
\* ---------------------------------------------------------------------

\* OPEN, a farewell sent, and the last activity older than the close
\* threshold
Overdue(r) ==
    /\ r.st = "OPEN"
    /\ r.farewell # NoTime
    /\ r.last < now - CloseTimeout

\* the closing loop of a sweep starting now would close the session
Closeable(r) == Inactive(r) /\ ShouldClose(r)

\* C28: a session that is OPEN with a farewell sent and a last activity
\* older than the close threshold meets the close condition of the sweep.
C28_OverdueIsCloseable ==
    dialog.pc = "run" => (Overdue(dialog.row) => Closeable(dialog.row))


\* ---------------------------------------------------------------------
\* delivery with the marker store out of reach
\* ---------------------------------------------------------------------

\* a finished Send of the same message whose marker went to the in-memory
\* store
MarkedInFallback(k) ==
    \E j \in Call \ {k} :
        /\ calls[j].mid = calls[k].mid
        /\ calls[j].markDown
        /\ calls[j].result.outcome = "sent"

\* C29: with Redis out of reach at the marker read or the marker write, a
\* Send still makes its transport call and returns that call's outcome: a
\* delivered Send returns success with the platform's id, and a Send that
\* is skipped found the marker of a delivered Send of the same message.
C29_MarkerFailureFailsOpen ==
    \A k \in Call :
        calls[k].pc = "done" =>
            /\ calls[k].markDown =>
                  /\ calls[k].sent >= 1
                  /\ calls[k].result.success
                  /\ ~calls[k].result.skipped
                  /\ calls[k].result.ext = calls[k].ext
            /\ (calls[k].readDown /\ ~MarkedInFallback(k)) =>
                  /\ calls[k].sent >= 1
                  /\ ~calls[k].result.skipped
                  /\ calls[k].result.outcome \in {"sent", "badjson", "rejected",
                                                  "server_error", "raised"}

\* a Send that met Redis out of reach at both the read and the write and
\* was delivered
C29_DeliveredWithoutRedis ==
    \E k \in Call :
        /\ calls[k].pc = "done"
        /\ calls[k].readDown /\ calls[k].markDown
        /\ ~redisUp
        /\ calls[k].sent = 1
        /\ calls[k].result.success


\* ---------------------------------------------------------------------
\* farewell_sent_at and the delivery
\* ---------------------------------------------------------------------

\* the session row carries a farewell_sent_at, committed or pending
FarewellMarked == dialog.row.farewell # NoTime \/ dialog.pend.farewell # NoTime

\* C30: farewell_sent_at is set only after the farewell was delivered: while
\* no farewell of the silence period has been accepted by the platform, the
\* session carries no farewell_sent_at.
C30_MarkedOnlyWhenDelivered ==
    Silent => (FarewellMarked => dialog.delivered >= 1)

\* ------------------------------------------- operator notification fan-out
MaxConns == 3
Operators == {"op_1", "op_2"}
Conn == 1 .. MaxConns
NotifyCallers == {"route", "service"}

\* the lists a registry can hold: connections in the order they were accepted
ConnLists ==
    {s \in UNION {[1 .. k -> Conn] : k \in 0 .. MaxConns} :
        \A i, j \in 1 .. Len(s) : i # j => s[i] # s[j]}
Elems(s) == {s[i] : i \in 1 .. Len(s)}
Without(s, c) == SelectSeq(s, LAMBDA x : x # c)
WithoutAll(s, cs) == SelectSeq(s, LAMBDA x : x \notin cs)

\* websocket_operator up to its receive loop: active_connections after the
\* operators' sockets were accepted; a key exists only with a connection
Registries ==
    {f \in [Operators -> ConnLists] :
        \A a, b \in Operators : a # b => Elems(f[a]) \cap Elems(f[b]) = {}}
Connected(f) == UNION {Elems(f[o]) : o \in Operators}

\* conns, present: the registry's lists and keys; keys: the snapshot the
\* fan-out walks; at, i, cur, disconnected: notify_operator's operator,
\* iterator position, connection being sent to and failed connections; atStart, left: the connections open when
\* the fan-out began and those that closed since
InitNotify ==
    /\ InitIntake /\ InitDelivery /\ InitSweep
    /\ decision = IdleDecision
    /\ dialog = IdleDialog
    /\ \E f \in Registries, c \in NotifyCallers, order \in {<<"op_1", "op_2">>, <<"op_2", "op_1">>} :
          fanout = [pc |-> "start", caller |-> c, order |-> order, conns |-> f,
                    present |-> {o \in Operators : f[o] # <<>>},
                    keys |-> <<>>, at |-> "none", i |-> 0, cur |-> 0, disconnected |-> {},
                    notified |-> {}, failed |-> {}, atStart |-> {}, left |-> {},
                    aborted |-> FALSE]

NotifyFrame == UNCHANGED <<now, msgs, clsf, rems, sess, req, ops, delivery, sweep, decision, dialog>>

\* the registry the caller's notify_all_operators reads: the route imports
\* routes/ws.py's, the delivery service websocket_notifier's, whose
\* _active_connections no code fills
RegistryKeys(c, order, present) ==
    IF c = "route" THEN SelectSeq(order, LAMBDA o : o \in present) ELSE <<>>

\* notify_all_operators: list(active_connections.keys())
NotifyAllOperators ==
    /\ fanout.pc = "start"
    /\ fanout' = [fanout EXCEPT !.pc = "next",
                     !.keys = RegistryKeys(fanout.caller, fanout.order, fanout.present),
                     !.atStart = Connected(fanout.conns)]
    /\ NotifyFrame

\* notify_operator, up to its loop; the fan-out returns after the last key
NotifyOperator ==
    /\ fanout.pc = "next"
    /\ IF fanout.keys = <<>>
       THEN fanout' = [fanout EXCEPT !.pc = "done"]
       ELSE LET o == Head(fanout.keys) IN
            IF o \notin fanout.present
            THEN fanout' = [fanout EXCEPT !.keys = Tail(fanout.keys)]
            ELSE fanout' = [fanout EXCEPT !.pc = "send", !.keys = Tail(fanout.keys),
                               !.at = o, !.i = 1, !.disconnected = {}]
    /\ NotifyFrame

\* one pass of the loop over the registry's list, up to the await of
\* connection.send_json, where the event loop runs other handlers
SendJson ==
    /\ fanout.pc = "send"
    /\ fanout.i <= Len(fanout.conns[fanout.at])
    /\ fanout' = [fanout EXCEPT !.pc = "await", !.cur = fanout.conns[fanout.at][fanout.i]]
    /\ NotifyFrame

\* send_json returns or raises; the list iterator moves to the next index
SendReturns(ok) ==
    /\ fanout.pc = "await"
    /\ LET c == fanout.cur IN
       fanout' = [fanout EXCEPT !.pc = "send", !.i = fanout.i + 1,
                     !.notified = IF ok THEN fanout.notified \cup {c} ELSE fanout.notified,
                     !.failed = IF ok THEN fanout.failed ELSE fanout.failed \cup {c},
                     !.disconnected = IF ok THEN fanout.disconnected
                                      ELSE fanout.disconnected \cup {c}]
    /\ NotifyFrame

\* notify_operator after its loop: active_connections[operator_id] is read
\* again; a missing key raises KeyError out of notify_all_operators
RemoveDisconnected ==
    /\ fanout.pc = "send"
    /\ fanout.i > Len(fanout.conns[fanout.at])
    /\ IF fanout.at \notin fanout.present
       THEN fanout' = [fanout EXCEPT !.pc = "done", !.aborted = TRUE]
       ELSE LET rest == WithoutAll(fanout.conns[fanout.at], fanout.disconnected) IN
            fanout' = [fanout EXCEPT !.pc = "next",
                          !.conns[fanout.at] = rest,
                          !.present = IF rest = <<>> THEN fanout.present \ {fanout.at}
                                      ELSE fanout.present]
    /\ NotifyFrame

\* websocket_operator's except WebSocketDisconnect branch, run by the event
\* loop while the fan-out awaits
Disconnect(c) ==
    /\ fanout.pc = "await"
    /\ \E o \in fanout.present :
          /\ c \in Elems(fanout.conns[o])
          /\ LET rest == Without(fanout.conns[o], c) IN
             fanout' = [fanout EXCEPT !.conns[o] = rest,
                           !.left = fanout.left \cup {c},
                           !.present = IF rest = <<>> THEN fanout.present \ {o}
                                       ELSE fanout.present]
    /\ NotifyFrame

NextNotify ==
    \/ NotifyAllOperators
    \/ NotifyOperator
    \/ SendJson
    \/ \E ok \in BOOLEAN : SendReturns(ok)
    \/ RemoveDisconnected
    \/ \E c \in Conn : Disconnect(c)

SpecNotify == InitNotify /\ [][NextNotify]_vars

\* C31: when the route's fan-out has ended, every connection that was open
\* when it began, stayed open and whose own send did not fail has been sent
\* the notification
C31_RemainingOperatorsNotified ==
    (fanout.pc = "done" /\ fanout.caller = "route")
        => \A c \in fanout.atStart \ (fanout.left \cup fanout.failed) : c \in fanout.notified

\* ---------------------------------------------------------------------
\* repeated contact
\* ---------------------------------------------------------------------
Evaluated == decision.pc \in {"done", "returned"}
HasReason(res, r) == \E i \in 1 .. Len(res.reasons) : res.reasons[i] = r

\* C32: a message that is at least the third USER message of its client in
\* the last ten minutes leaves the orchestrator with reason REPEATED_FAILED,
\* a level of at least HIGH and escalation required, whatever its scenario
\* and confidence.
C32_ThirdMessageEscalates ==
    (Evaluated /\ decision.caller # "direct" /\ decision.requests >= RequestsTrigger) =>
        /\ HasReason(decision.result, "repeated_failed")
        /\ AtLeast(decision.result.level, "high")
        /\ decision.requires

\* ---------------------------------------------------------------------
\* the close and the client's latest activity
\* ---------------------------------------------------------------------

\* the commit of sweep w makes the session CLOSED
SweepCloses(w) ==
    /\ dialog.pc = "run"
    /\ dialog.sw[w].pc = "end"
    /\ dialog'.sw[w].pc = "idle"
    /\ dialog.row.st = "OPEN"
    /\ dialog'.row.st = "CLOSED"

\* C33: a close the sweep commits leaves a session whose last activity is at
\* least close_timeout older than its closed_at; a message accepted after
\* the sweep selected the session is not followed by that sweep's close.
C33_CloseOnlyAfterTimeout ==
    [][\A w \in Sweeper :
          SweepCloses(w) => dialog'.row.closedAt - dialog'.row.last >= CloseTimeout]_vars

\* ---------------------------------------------------------------------
\* sent and cancelled
\* ---------------------------------------------------------------------

\* C34: no reminder row has sent_at set and is_cancelled true together,
\* whatever the interleaving of the sweep's workers, Cancel and the manual
\* send endpoint.
C34_NeverSentAndCancelled ==
    \A r \in rems : ~(r.sent /\ r.cancelled)

\* ---------------------------------------------------------------------
\* the farewell before the close
\* ---------------------------------------------------------------------

\* C35: a session the sweep closes with farewell_sent_at set has its
\* farewell_sent_at at or after its last_activity_at: the farewell it
\* carries was sent after the client's last message.
C35_FarewellAfterLastActivity ==
    [][\A w \in Sweeper :
          (SweepCloses(w) /\ dialog'.row.farewell # NoTime)
              => dialog'.row.farewell >= dialog'.row.last]_vars

\* ---------------------------------------------------------------------
\* the farewell and a client active again
\* ---------------------------------------------------------------------

\* sweep w hands its farewell to the platform, which accepts it
Delivers(w) ==
    /\ dialog.pc = "run"
    /\ dialog.sw[w].pc = "farewell"
    /\ dialog'.sw[w].pc = "mark"
    /\ dialog'.delivered = dialog.delivered + 1

\* sweep w writes farewell_sent_at
Marks(w) ==
    /\ dialog.pc = "run"
    /\ dialog.sw[w].pc = "mark"
    /\ dialog'.sw[w].pc = "mid"

\* a message was accepted after sweep w selected the session
ActiveSinceSelected(w) == dialog.row.last > dialog.sw[w].obj.last

\* C36: a sweep delivers no farewell and writes no farewell_sent_at for a
\* session whose client had a message accepted after that sweep selected it.
C36_NoFarewellToActiveClient ==
    [][\A w \in Sweeper :
          ActiveSinceSelected(w) => ~(Delivers(w) \/ Marks(w))]_vars

\* ---------------------------------------------------------------------
\* the reply rows of one inbound message
\* ---------------------------------------------------------------------

\* the committed bot reply rows request p has created
Replies(p) ==
    {m \in Committed(msgs) :
        /\ m.type \in {"bot_auto", "bot_escalated"}
        /\ \E k \in 1 .. 3 : m.id = RowId(p, k)}

\* C37: an inbound message that was accepted and answered has exactly one
\* persisted bot reply row, on the empty-text and the failed-classification
\* paths as on the others.
C37_OneReplyPerMessage ==
    \A p \in Req :
        (req[p].pc = "done" /\ req[p].result \in {"success", "escalated"})
            => Cardinality(Replies(p)) = 1

\* ---------------------------------------------------------------------
\* the periodic sweep closes a silent session
\* ---------------------------------------------------------------------

\* the one scheduler of a process: its job runs one sweep at a time
Scheduler == 1

\* the clock reaches the next minute and the job starts:
\* process_inactive_sessions selects the sessions needing a farewell
IntervalTrigger ==
    /\ dialog.sw[Scheduler].pc = "idle"
    /\ now < MaxMinutes * SweepInterval
    /\ now' = now + SweepInterval
    /\ LET r == View(SweepTx(Scheduler))
       IN  dialog' = [dialog EXCEPT !.sw[Scheduler] =
                        IF r.st = "OPEN" /\ r.last <= now' - FarewellDelay /\ r.farewell = NoTime
                        THEN [pc |-> "farewell", obj |-> r, loaded |-> TRUE]
                        ELSE [pc |-> "mid", obj |-> NoRow, loaded |-> FALSE]]
    /\ DialogFrame

\* a message early enough for its close to fall inside the minutes modelled
InTime == now + CloseTimeout + SweepInterval <= MaxMinutes * SweepInterval

SweepStep ==
    \/ \E tpl \in BOOLEAN, o \in FarewellOutcomes : SendFarewell(Scheduler, tpl, o)
    \/ MarkFarewell(Scheduler)
    \/ CommitFarewells(Scheduler)
    \/ CloseSession(Scheduler)
    \/ SweepCommit(Scheduler)

NextPeriodic ==
    \/ IntervalTrigger
    \/ SweepStep
    \/ \E p \in Act : InTime /\ GetSession(p)
    \/ \E p \in Act : InTime /\ UpdateActivity(p)
    \/ \E p \in Act : AcceptMessage(p)

\* the trigger fires every minute and a started sweep runs to its end; a
\* request that has written its activity commits
SpecPeriodic ==
    /\ InitDialog
    /\ [][NextPeriodic]_vars
    /\ WF_vars(IntervalTrigger)
    /\ WF_vars(SweepStep)
    /\ \A p \in Act : WF_vars(AcceptMessage(p))

\* no request of the client is under way
Quiet == \A p \in Act : dialog.act[p].pc \in {"idle", "done", "failed"}

\* C38: under the periodic sweep an OPEN session whose client sends nothing
\* further is eventually CLOSED, also when no farewell could be created or
\* delivered: from a moment the session is OPEN with no request under way,
\* it gets CLOSED unless the client sends a further message.
C38_SilentSessionCloses ==
    \A k \in 0 .. MaxActs :
        (dialog.row.st = "OPEN" /\ Quiet /\ InTime /\ dialog.acts = k)
            ~> (dialog.row.st = "CLOSED" \/ dialog.acts > k)

\* closed with no farewell_sent_at after a farewell whose delivery raised
C38_ClosedWithoutFarewell ==
    /\ dialog.row.st = "CLOSED"
    /\ dialog.row.farewell = NoTime
    /\ dialog.fmsgs # {}
    /\ dialog.delivered = 0

\* ---------------------------------------------------------------------
\* after an escalated reply
\* ---------------------------------------------------------------------

\* C39: a message of a client who was sent a BOT_ESCALATED reply in the last
\* hour leaves the orchestrator at level CRITICAL with priority_queue 1,
\* should_escalate true and escalation required, so that its reply is
\* BOT_ESCALATED.
C39_CriticalAfterEscalation ==
    (Evaluated /\ decision.caller # "direct" /\ decision.escalated) =>
        /\ decision.result.level = "critical"
        /\ decision.result.queue = 1
        /\ decision.result.should
        /\ decision.requires

\* ---------------------------------------------------------------------
\* the marker and the platform's answer
\* ---------------------------------------------------------------------

\* the marker of message m is stored, in Redis or in the in-memory store
Marked(m) ==
    redisKeys[SentKey(m)].val # None \/ fallbackKeys[SentKey(m)].val # None

\* some transport call for message m was answered 200/201
Answered200(m) == posts[m].ok + posts[m].unparsed >= 1

\* C40: a marker exists for a message_id only if a transport call for it was
\* answered 200/201, and a Send is skipped only for such a message_id: a
\* Send that ended in failure has left nothing that makes a later Send of
\* the same message_id skip.
C40_MarkerOnlyAfterDelivery ==
    /\ \A m \in MsgIds : Marked(m) => Answered200(m)
    /\ \A k \in Call : calls[k].result.skipped => Answered200(calls[k].mid)

\* a Send of a message ended in failure without a 200/201, and a later Send
\* of the same message went to the platform and was delivered
C40_DeliveredAfterFailure ==
    \E k, j \in Call :
        /\ k < j
        /\ calls[k].mid = calls[j].mid
        /\ calls[k].pc = "done"
        /\ ~calls[k].result.success
        /\ calls[k].refused + calls[k].errors >= 1
        /\ calls[j].pc = "done"
        /\ calls[j].result.outcome = "sent"
        /\ posts[calls[k].mid].ok = 1
====
